---- MODULE Spec2Model ----
(***************************************************************************)
(* A model of the coordination core of the ALMAA agent system:             *)
(*   - MessageBus (core/communication.py): registry, subscriptions, the    *)
(*     shared queue, the delivery worker and the agent driving loop;       *)
(*   - ResponseManager (core/response_manager.py): pending requests, the   *)
(*     response matcher, the polling get_response and the cleanup sweep;   *)
(*   - DebateModerator (agents/special/moderator.py) with Debate and       *)
(*     DebateRound (core/debate.py);                                       *)
(*   - EnhancedMessageBus (core/enhanced_messagebus.py): routing by type;  *)
(*   - MessageBusSync (core/messagebus_sync.py): delivery and draining in  *)
(*     the caller's stack;                                                 *)
(*   - VotingSystem (core/voting.py): the four counting methods and        *)
(*     conduct_vote;                                                       *)
(*   - the participants of the debates (agents/mixins/debater.py) and the  *)
(*     Moderator's process_message;                                        *)
(*   - the cache of processed envelopes of SimpleChef and AgentChefProjet  *)
(*     (agents/simple_chef.py, agents/chef_projet.py);                     *)
(*   - the complete system (main_complete.py): process_request, the        *)
(*     EnhancedMessageBus worker, process_agent_messages, SimpleChef and   *)
(*     the UserResponseCollector (agents/user_response_collector.py).      *)
(* Each component has its own specifications (SpecBus, SpecOrder,          *)
(* SpecThreads, SpecDriven, SpecEnhanced, SpecSync, SpecSyncLongRun,       *)
(* SpecRM, SpecRMMatch, SpecRMLive, SpecDebate, SpecDebateLive,            *)
(* SpecSubmissions, SpecDebaters, SpecLateSubmissions, SpecApi, SpecVote,  *)
(* SpecCaches, SpecComplete) over the same variables; a component's        *)
(* actions leave the other components' variables unchanged.                *)
(***************************************************************************)
EXTENDS Integers, Sequences, FiniteSets, TLC

(***************************************************************************)
(* Bounds of the model                                                     *)
(***************************************************************************)
\* number of requests created, and of responses registered
MaxReq == 2

\* number of requests created when requests are followed until they expire
MaxTimedReq == 1

\* the seconds followed when no request expires
MatchHorizon == 2

\* number of requests created when nobody calls get_response
MaxSweptReq == 2

\* number of ARGUMENT_SUBMISSION envelopes the Moderator processes that are not
\* a participant's first answer to the current round
MaxRedundant == 1

\* number of START_ROUND envelopes the Moderator processes
MaxStarts == 1

\* number of envelopes the environment publishes or queues on the bus
MaxMsgs == 1

\* python's None / the empty string: both are falsy in `if message.recipient`
NoRecipient == ""

\* agent objects that exist (registered on the bus or not)
Names == {"Agent1", "Agent2", "Agent3"}

\* envelope types the environment uses on the bus
Types == {"PING", "ANNOUNCEMENT"}

\* the types the environment subscribes agents to
SubTypes == {"ANNOUNCEMENT"}

VARIABLES
  \* ---- MessageBus
  agents,           \* self.agents: dict name -> agent, as the sequence of its keys
  subscribers,      \* self.subscribers: type -> set of names
  message_queue,    \* self.message_queue (FIFO)
  message_history,  \* self.message_history
  stats,            \* self.stats
  inbox,            \* BaseAgent.inbox of each agent object
  outbox,           \* BaseAgent.outbox of each agent object
  received,         \* MockAgent.received_messages of each agent object
  nextMsg,          \* the next fresh envelope id (uuid4)
  \* ---- ResponseManager
  pending_requests,    \* self.pending_requests: dict id -> PendingRequest, as its keys in insertion order
  req,                 \* the PendingRequest objects, by request id
  completed_responses, \* self.completed_responses (audit log)
  rm_stats,            \* self.stats
  now,                 \* datetime.now(), in seconds
  next_sweep,          \* when the cleanup thread next leaves time.sleep
  poll,                \* the get_response call in progress for each request id
  results,             \* the terminal outcomes get_response has returned for each id
  \* ---- DebateModerator
  active_debates,        \* self.active_debates: debate id -> Debate
  debate_rounds_status,  \* self.debate_rounds_status: debate id -> round tracking
  mod_outbox,            \* the Moderator's outbox (BaseAgent.outbox)
  mod_errors,            \* the except branches that ran in the last step (logger.error)
  mod_handled,           \* the envelopes the Moderator has processed, by kind, and
                         \* the runs of _analyze_and_continue_debate and conclude_debate
  \* ---- MessageBusSync
  sync_stack,            \* the _process_all_inboxes calls in progress, outermost first
  \* ---- the threads of MessageBus
  bus_lock,              \* the thread inside a with self._lock block
  unregistering,         \* the agent a running unregister_agent call has deleted
  worker,                \* where the delivery worker is in _deliver_message
  driver,                \* where the driver is in process_agent_messages
  \* ---- a Debate object used directly
  debate,                \* the Debate, its rounds and their arguments
  \* ---- VotingSystem
  vote_in,               \* the options, votes and weights of the calls
  vote_out,              \* what the last call has returned or raised
  \* ---- the participants of the Moderator's debates
  part_inbox,            \* the inbox of each participant (BaseAgent.inbox)
  mod_inbox,             \* the Moderator's inbox
  env_submitted,         \* the ARGUMENT_SUBMISSION envelopes other senders have published
  \* ---- the caches of processed envelopes (SimpleChef, AgentChefProjet)
  processed_messages,    \* self.processed_messages of each agent: the keys of the envelopes seen
  calls,                 \* the process_message calls made on each agent, and what the last one did
  \* ---- the complete system (main_complete.py): EnhancedMessageBus, SimpleChef, UserResponseCollector
  sys_queue,             \* EnhancedMessageBus.message_queue
  sys_inbox,             \* the inbox of each registered agent
  sys_driver,            \* where process_agent_messages stands: agent, step, the copied messages
  sys_log                \* calls of process_request, envelopes appended to inboxes, calls of process_message

busVars == <<agents, subscribers, message_queue, message_history, stats,
             inbox, outbox, received, nextMsg>>

rmVars == <<pending_requests, req, completed_responses, rm_stats, now,
            next_sweep, poll, results>>

modVars == <<active_debates, debate_rounds_status, mod_outbox, mod_errors, mod_handled>>

syncVars == <<sync_stack>>

threadVars == <<bus_lock, unregistering, worker, driver>>

apiVars == <<debate>>

voteVars == <<vote_in, vote_out>>

debaterVars == <<part_inbox, mod_inbox, env_submitted>>

cacheVars == <<processed_messages, calls>>

sysVars == <<sys_queue, sys_inbox, sys_driver, sys_log>>

vars == <<busVars, rmVars, modVars, syncVars, threadVars, apiVars, voteVars, debaterVars, cacheVars, sysVars>>

\* what the bus operations do not touch
notBusVars == <<rmVars, modVars, syncVars, threadVars, apiVars, voteVars, debaterVars, cacheVars, sysVars>>

\* what the ResponseManager operations do not touch
notRmVars == <<busVars, modVars, syncVars, threadVars, apiVars, voteVars, debaterVars, cacheVars, sysVars>>

\* what the Moderator operations do not touch
notModVars == <<busVars, rmVars, syncVars, threadVars, apiVars, voteVars, debaterVars, cacheVars, sysVars>>

\* what the MessageBusSync operations do not touch besides the bus fields
notSyncVars == <<rmVars, modVars, threadVars, apiVars, voteVars, debaterVars, cacheVars, sysVars>>

\* what the calls on a Debate object do not touch
notApiVars == <<busVars, rmVars, modVars, syncVars, threadVars, voteVars, debaterVars, cacheVars, sysVars>>

\* what the threads of MessageBus do not touch besides the bus fields
notThreadVars == <<rmVars, modVars, syncVars, apiVars, voteVars, debaterVars, cacheVars, sysVars>>

(***************************************************************************)
(* Helpers on sequences                                                    *)
(***************************************************************************)
Range(s) == {s[i] : i \in DOMAIN s}

\* number of occurrences of x in the sequence s
Count(x, s) == Cardinality({i \in DOMAIN s : s[i] = x})

\* s without every occurrence of x, order kept
RECURSIVE Without(_, _)
Without(s, x) ==
  IF s = <<>> THEN <<>>
  ELSE IF Head(s) = x THEN Without(Tail(s), x)
       ELSE <<Head(s)>> \o Without(Tail(s), x)

\* python's list[-n:]
LastN(s, n) ==
  IF Len(s) <= n THEN s ELSE SubSeq(s, Len(s) - n + 1, Len(s))

(***************************************************************************)
(* MessageBus                                                              *)
(***************************************************************************)
HistoryCap == 1000
HistoryKeep == 500

Registered == Range(agents)

Message(id, sender, recipient, type) ==
  [id |-> id, sender |-> sender, recipient |-> recipient, type |-> type]

InitBus ==
  /\ agents = <<>>
  /\ subscribers = [t \in Types |-> {}]
  /\ message_queue = <<>>
  /\ message_history = <<>>
  /\ stats = [messages_sent |-> 0, messages_delivered |-> 0, messages_failed |-> 0]
  /\ inbox = [a \in Names |-> <<>>]
  /\ outbox = [a \in Names |-> <<>>]
  /\ received = [a \in Names |-> <<>>]
  /\ nextMsg = 1

\* register_agent: self.agents[agent.name] = agent (an existing key keeps its place)
RegisterAgent(a) ==
  /\ agents' = IF a \in Registered THEN agents ELSE Append(agents, a)
  /\ UNCHANGED <<subscribers, message_queue, message_history, stats, inbox,
                 outbox, received, nextMsg>>
  /\ UNCHANGED notBusVars

\* unregister_agent: removes the agent and its subscriptions
UnregisterAgent(a) ==
  /\ a \in Registered
  /\ agents' = Without(agents, a)
  /\ subscribers' = [t \in Types |-> subscribers[t] \ {a}]
  /\ UNCHANGED <<message_queue, message_history, stats, inbox, outbox,
                 received, nextMsg>>
  /\ UNCHANGED notBusVars

\* subscribe: no check that the name is registered
Subscribe(a, t) ==
  /\ subscribers' = [subscribers EXCEPT ![t] = @ \cup {a}]
  /\ UNCHANGED <<agents, message_queue, message_history, stats, inbox, outbox,
                 received, nextMsg>>
  /\ UNCHANGED notBusVars

Unsubscribe(a, t) ==
  /\ subscribers' = [subscribers EXCEPT ![t] = @ \ {a}]
  /\ UNCHANGED <<agents, message_queue, message_history, stats, inbox, outbox,
                 received, nextMsg>>
  /\ UNCHANGED notBusVars

\* publish: put on the queue, count as sent
PublishWithin(m, bound) ==
  /\ nextMsg <= bound
  /\ m.id = nextMsg
  /\ message_queue' = Append(message_queue, m)
  /\ stats' = [stats EXCEPT !.messages_sent = @ + 1]
  /\ nextMsg' = nextMsg + 1
  /\ UNCHANGED <<agents, subscribers, message_history, inbox, outbox, received>>
  /\ UNCHANGED notBusVars

\* publish, for up to MaxMsgs envelopes
Publish(m) == PublishWithin(m, MaxMsgs)

\* BaseAgent.send_message: the agent queues the envelope in its outbox
SendMessage(a, m) ==
  /\ nextMsg <= MaxMsgs
  /\ m.id = nextMsg
  /\ m.sender = a
  /\ outbox' = [outbox EXCEPT ![a] = Append(@, m)]
  /\ nextMsg' = nextMsg + 1
  /\ UNCHANGED <<agents, subscribers, message_queue, message_history, stats,
                 inbox, received>>
  /\ UNCHANGED notBusVars

\* a mutant of DeliverTargets: the broadcast branch also runs for a direct envelope
DeliverTargetsAlsoBroadcast(m) ==
  (IF m.recipient # NoRecipient /\ m.recipient \in Registered
     THEN {m.recipient} ELSE {})
  \cup {s \in subscribers[m.type] : s \in Registered /\ s # m.sender}

\* a mutant of DeliverTargets: the broadcast does not exclude the sender
DeliverTargetsEcho(m) ==
  IF m.recipient # NoRecipient
    THEN IF m.recipient \in Registered THEN {m.recipient} ELSE {}
    ELSE {s \in subscribers[m.type] : s \in Registered}

\* _deliver_message: the agents whose receive_message is called with m
DeliverTargets(m) ==
  IF m.recipient # NoRecipient
    THEN IF m.recipient \in Registered THEN {m.recipient} ELSE {}
    ELSE {s \in subscribers[m.type] : s \in Registered /\ s # m.sender}

\* _deliver_message: the counters after delivering m
DeliverStats(m) ==
  IF m.recipient # NoRecipient
    THEN IF m.recipient \in Registered
           THEN [stats EXCEPT !.messages_delivered = @ + 1]
           ELSE [stats EXCEPT !.messages_failed = @ + 1]
    ELSE IF DeliverTargets(m) # {}
           THEN [stats EXCEPT !.messages_delivered = @ + Cardinality(subscribers[m.type])]
           ELSE stats

\* _process_loop: the history after appending m and trimming
HistoryAfter(h, m) ==
  LET h1 == Append(h, m)
  IN IF Len(h1) > HistoryCap THEN LastN(h1, HistoryKeep) ELSE h1

\* a mutant of Receive: the envelope is put at the front of the inbox
ReceiveFirst(box, m) == <<m>> \o box

\* BaseAgent.receive_message: self.inbox.append(message)
Receive(box, m) == Append(box, m)

\* one iteration of the delivery worker (_process_loop) that found an envelope
DeliverStep ==
  /\ message_queue # <<>>
  /\ LET m == Head(message_queue)
     IN /\ inbox' = [a \in Names |->
                       IF a \in DeliverTargets(m) THEN Receive(inbox[a], m)
                       ELSE inbox[a]]
        /\ stats' = DeliverStats(m)
        /\ message_history' = HistoryAfter(message_history, m)
  /\ message_queue' = Tail(message_queue)
  /\ UNCHANGED <<agents, subscribers, outbox, received, nextMsg>>
  /\ UNCHANGED notBusVars

\* the agents whose process_message raises an exception for every envelope
RaisingAgents == {"Agent3"}

\* what the driver publishes for one inbox envelope: the return value of
\* process_message (MockAgent answers a PING by a PONG to its sender), nothing
\* when process_message raises and the except branch logs the error
ReplyTo(a, m, id) ==
  IF a \in RaisingAgents THEN <<>>
  ELSE IF m.type = "PING" THEN <<Message(id, a, m.sender, "PONG")>>
  ELSE <<>>

\* the envelopes agent a publishes while the driver handles it: one reply per
\* inbox envelope that has one, then its outbox; ids are drawn from `id` upward
RECURSIVE Replies(_, _, _)
Replies(a, box, id) ==
  IF box = <<>> THEN <<>>
  ELSE LET r == ReplyTo(a, Head(box), id)
       IN r \o Replies(a, Tail(box), id + Len(r))

\* process_agent_messages over the agents `as` in registry order: the envelopes
\* published, in publish order
RECURSIVE Published(_, _)
Published(as, id) ==
  IF as = <<>> THEN <<>>
  ELSE LET a == Head(as)
           mine == IF a = "User" THEN <<>>
                   ELSE Replies(a, inbox[a], id) \o outbox[a]
           made == IF a = "User" THEN 0 ELSE Len(Replies(a, inbox[a], id))
       IN mine \o Published(Tail(as), id + made)

\* process_agent_messages: the driver drains every registered agent's inbox and
\* outbox and publishes the replies and the queued envelopes
ProcessAgentMessages ==
  LET pub == Published(agents, nextMsg)
      drained == {a \in Registered : a # "User"}
  IN /\ \E a \in drained : inbox[a] # <<>> \/ outbox[a] # <<>>
     /\ received' = [a \in Names |->
                       IF a \in drained THEN received[a] \o inbox[a] ELSE received[a]]
     /\ inbox' = [a \in Names |-> IF a \in drained THEN <<>> ELSE inbox[a]]
     /\ outbox' = [a \in Names |-> IF a \in drained THEN <<>> ELSE outbox[a]]
     /\ message_queue' = message_queue \o pub
     /\ stats' = [stats EXCEPT !.messages_sent = @ + Len(pub)]
     /\ nextMsg' = nextMsg + Cardinality({i \in DOMAIN pub : pub[i].id >= nextMsg})
     /\ UNCHANGED <<agents, subscribers, message_history>>
     /\ UNCHANGED notBusVars

\* the envelopes the environment creates: Agent1 addresses another agent or
\* broadcasts (a sender is excluded from its own broadcast when it subscribes)
Senders == {"Agent1"}

NewMessages ==
  {Message(nextMsg, s, r, t) :
     s \in Senders, r \in (Names \ Senders) \cup {NoRecipient}, t \in Types}

NextBus ==
  \/ \E a \in Names : RegisterAgent(a)
  \/ \E a \in Names : UnregisterAgent(a)
  \/ \E a \in Names, t \in SubTypes : Subscribe(a, t)
  \/ \E a \in Names, t \in SubTypes : Unsubscribe(a, t)
  \/ \E m \in NewMessages : Publish(m)
  \/ \E m \in NewMessages : SendMessage(m.sender, m)
  \/ DeliverStep
  \/ ProcessAgentMessages

\* the publish calls followed when the order of delivery is examined
MaxOrderMsgs == 2

\* the MessageBus with several envelopes in flight: publishers (the
\* environment and the driver's replies) interleave with the delivery worker
NextOrder ==
  \/ \E a \in Names : RegisterAgent(a)
  \/ \E a \in Names, t \in SubTypes : Subscribe(a, t)
  \/ \E m \in NewMessages : PublishWithin(m, MaxOrderMsgs)
  \/ DeliverStep
  \/ ProcessAgentMessages

(***************************************************************************)
(* The threads of MessageBus: callers of the registry operations, the      *)
(* delivery worker and the driver, each advancing one step at a time; an   *)
(* envelope enters the bus when the driver publishes an agent's outbox.    *)
(* register_agent, unregister_agent, subscribe, unsubscribe and            *)
(* process_agent_messages run inside with self._lock; _process_loop and    *)
(* _deliver_message take no lock.                                          *)
(***************************************************************************)
Free == "free"

\* the worker between two envelopes
WorkerIdle ==
  [pc |-> "idle", msg |-> <<>>, start |-> {}, seen |-> {}, used |-> 0,
   delivered |-> FALSE]

\* the process_agent_messages calls followed
MaxPasses == 2

\* the driver outside process_agent_messages, passes counting its calls that
\* have returned
DriverIdle == [pc |-> "idle", todo |-> <<>>, passes |-> 0]

InitThreads ==
  /\ bus_lock = Free
  /\ unregistering = NoRecipient
  /\ worker = WorkerIdle
  /\ driver = DriverIdle

\* register_agent, subscribe and unsubscribe: one statement inside the lock
Locked(op) ==
  /\ bus_lock = Free
  /\ op

\* unregister_agent up to del self.agents[agent_name], the lock being held
UnregisterBegin(a) ==
  /\ bus_lock = Free
  /\ a \in Registered
  /\ bus_lock' = "caller"
  /\ unregistering' = a
  /\ agents' = Without(agents, a)
  /\ UNCHANGED <<subscribers, message_queue, message_history, stats, inbox,
                 outbox, received, nextMsg, worker, driver>>
  /\ UNCHANGED notThreadVars

\* unregister_agent from the loop that discards the subscriptions to the
\* release of the lock
UnregisterEnd ==
  /\ bus_lock = "caller"
  /\ subscribers' = [t \in Types |-> subscribers[t] \ {unregistering}]
  /\ bus_lock' = Free
  /\ unregistering' = NoRecipient
  /\ UNCHANGED <<agents, message_queue, message_history, stats, inbox,
                 outbox, received, nextMsg, worker, driver>>
  /\ UNCHANGED notThreadVars

\* _process_loop takes an envelope and _deliver_message starts: a direct
\* envelope is tested with message.recipient in self.agents, a broadcast
\* starts the iteration of the subscriber set
WorkerGet ==
  /\ worker.pc = "idle"
  /\ message_queue # <<>>
  /\ message_queue' = Tail(message_queue)
  /\ LET m == Head(message_queue)
     IN IF m.recipient = NoRecipient
          THEN /\ worker' = [pc |-> "broadcast", msg |-> <<m>>,
                             start |-> subscribers[m.type], seen |-> {},
                             used |-> Cardinality(subscribers[m.type]),
                             delivered |-> FALSE]
               /\ UNCHANGED <<stats, message_history>>
          ELSE IF m.recipient \in Registered
          THEN /\ worker' = [WorkerIdle EXCEPT !.pc = "direct", !.msg = <<m>>]
               /\ UNCHANGED <<stats, message_history>>
          ELSE /\ stats' = [stats EXCEPT !.messages_failed = @ + 1]
               /\ message_history' = HistoryAfter(message_history, m)
               /\ UNCHANGED worker
  /\ UNCHANGED <<agents, subscribers, inbox, outbox, received, nextMsg,
                 bus_lock, unregistering, driver>>
  /\ UNCHANGED notThreadVars

\* _deliver_message, self.agents[message.recipient].receive_message(message):
\* the lookup raises KeyError when the recipient has been deleted since the
\* test, and the except branch of _process_loop counts a failure
WorkerDirect ==
  /\ worker.pc = "direct"
  /\ LET m == worker.msg[1]
     IN IF m.recipient \in Registered
          THEN /\ inbox' = [inbox EXCEPT ![m.recipient] = Receive(@, m)]
               /\ stats' = [stats EXCEPT !.messages_delivered = @ + 1]
               /\ message_history' = HistoryAfter(message_history, m)
          ELSE /\ stats' = [stats EXCEPT !.messages_failed = @ + 1]
               /\ UNCHANGED <<inbox, message_history>>
  /\ worker' = WorkerIdle
  /\ UNCHANGED <<agents, subscribers, message_queue, outbox, received, nextMsg,
                 bus_lock, unregistering, driver>>
  /\ UNCHANGED notThreadVars

\* _deliver_message, one turn of for subscriber in subscribers: the set
\* iterator raises RuntimeError when the set has changed size; otherwise it
\* yields a subscriber not yet seen, and it may pass over one added since the
\* iteration started
WorkerNext ==
  /\ worker.pc = "broadcast"
  /\ LET m == worker.msg[1]
         subs == subscribers[m.type]
     IN IF Cardinality(subs) # worker.used
          THEN /\ stats' = [stats EXCEPT !.messages_failed = @ + 1]
               /\ worker' = WorkerIdle
               /\ UNCHANGED <<inbox, message_history>>
          ELSE \/ \E s \in subs \ worker.seen :
                    LET hit == s \in Registered /\ s # m.sender
                    IN /\ inbox' = [inbox EXCEPT ![s] =
                                      IF hit THEN Receive(@, m) ELSE @]
                       /\ worker' = [worker EXCEPT
                                       !.seen = @ \cup {s},
                                       !.delivered = @ \/ hit]
                       /\ UNCHANGED <<stats, message_history>>
               \/ /\ (subs \ worker.seen) \cap worker.start = {}
                  /\ stats' = IF worker.delivered
                                THEN [stats EXCEPT !.messages_delivered =
                                                     @ + Cardinality(subs)]
                                ELSE stats
                  /\ message_history' = HistoryAfter(message_history, m)
                  /\ worker' = WorkerIdle
                  /\ UNCHANGED inbox
  /\ UNCHANGED <<agents, subscribers, message_queue, outbox, received, nextMsg,
                 bus_lock, unregistering, driver>>
  /\ UNCHANGED notThreadVars

\* process_agent_messages takes the lock and starts the loop over
\* self.agents.values()
DriverStart ==
  /\ driver.pc = "idle"
  /\ driver.passes < MaxPasses
  /\ bus_lock = Free
  /\ bus_lock' = "driver"
  /\ driver' = [driver EXCEPT !.pc = "inbox", !.todo = agents]
  /\ UNCHANGED <<busVars, unregistering, worker>>
  /\ UNCHANGED notThreadVars

\* publish called by the driver
DriverPublish(pub) ==
  /\ message_queue' = message_queue \o pub
  /\ stats' = [stats EXCEPT !.messages_sent = @ + Len(pub)]

\* process_agent_messages, one turn of while agent.inbox: the envelope is
\* popped and processed and the reply, if any, is published
DriverInbox ==
  /\ driver.pc = "inbox"
  /\ driver.todo # <<>>
  /\ LET a == Head(driver.todo)
     IN /\ a # "User"
        /\ inbox[a] # <<>>
        /\ LET m == Head(inbox[a])
               reply == ReplyTo(a, m, nextMsg)
           IN /\ inbox' = [inbox EXCEPT ![a] = Tail(@)]
              /\ received' = [received EXCEPT ![a] = Append(@, m)]
              /\ DriverPublish(reply)
              /\ nextMsg' = nextMsg + Len(reply)
  /\ UNCHANGED <<agents, subscribers, message_history, outbox, threadVars>>
  /\ UNCHANGED notThreadVars

\* process_agent_messages: the inbox is found empty, the outbox loop starts
DriverInboxDone ==
  /\ driver.pc = "inbox"
  /\ driver.todo # <<>>
  /\ Head(driver.todo) # "User"
  /\ inbox[Head(driver.todo)] = <<>>
  /\ driver' = [driver EXCEPT !.pc = "outbox"]
  /\ UNCHANGED <<busVars, bus_lock, unregistering, worker>>
  /\ UNCHANGED notThreadVars

\* process_agent_messages, one turn of while agent.outbox
DriverOutbox ==
  /\ driver.pc = "outbox"
  /\ LET a == Head(driver.todo)
     IN /\ outbox[a] # <<>>
        /\ outbox' = [outbox EXCEPT ![a] = Tail(@)]
        /\ DriverPublish(<<Head(outbox[a])>>)
  /\ UNCHANGED <<agents, subscribers, message_history, inbox, received,
                 nextMsg, threadVars>>
  /\ UNCHANGED notThreadVars

\* process_agent_messages: the for loop goes to the next agent (at once for
\* the agent named User)
DriverNextAgent ==
  /\ driver.todo # <<>>
  /\ \/ driver.pc = "inbox" /\ Head(driver.todo) = "User"
     \/ driver.pc = "outbox" /\ outbox[Head(driver.todo)] = <<>>
  /\ driver' = [driver EXCEPT !.pc = "inbox", !.todo = Tail(@)]
  /\ UNCHANGED <<busVars, bus_lock, unregistering, worker>>
  /\ UNCHANGED notThreadVars

\* process_agent_messages returns and releases the lock
DriverEnd ==
  /\ driver.pc = "inbox"
  /\ driver.todo = <<>>
  /\ driver' = [DriverIdle EXCEPT !.passes = driver.passes + 1]
  /\ bus_lock' = Free
  /\ UNCHANGED <<busVars, unregistering, worker>>
  /\ UNCHANGED notThreadVars

NextThreads ==
  \/ \E a \in Names : Locked(RegisterAgent(a))
  \/ \E a \in Names : UnregisterBegin(a)
  \/ UnregisterEnd
  \/ \E a \in Names, t \in SubTypes : Locked(Subscribe(a, t))
  \/ \E m \in NewMessages : SendMessage(m.sender, m)
  \/ WorkerGet
  \/ WorkerDirect
  \/ WorkerNext
  \/ DriverStart
  \/ DriverInbox
  \/ DriverInboxDone
  \/ DriverOutbox
  \/ DriverNextAgent
  \/ DriverEnd

(***************************************************************************)
(* MessageBusSync (core/messagebus_sync.py)                                *)
(* publish delivers in the caller's stack and drains every inbox; a reply  *)
(* is published from inside the drain.  sync_stack holds one frame for     *)
(* each _process_all_inboxes call in progress; the bus has one thread, so  *)
(* nothing else runs while the stack is not empty.                         *)
(***************************************************************************)
\* max_iterations of _process_all_inboxes
MaxIterations == 10

\* the deepest nesting of _process_all_inboxes calls the model follows
MaxDepth == 11

\* the agents that answer every envelope they process with a reply to its sender
AnsweringAgents == {"Agent1", "Agent2"}

InitSync == sync_stack = <<>>

\* the locals of _process_all_inboxes at the start of a pass of its while
\* loop, todo being what is left of the for loop over self.agents.values()
Pass(iteration) ==
  [iteration |-> iteration, messages_processed |-> FALSE, todo |-> agents]

\* subscribers.get(message.type, set())
Subscribed(t) == IF t \in DOMAIN subscribers THEN subscribers[t] ELSE {}

\* MessageBusSync._deliver_message: the agents whose receive_message is called
SyncTargets(m) ==
  IF m.recipient # NoRecipient
    THEN IF m.recipient \in Registered THEN {m.recipient} ELSE {}
    ELSE {s \in Subscribed(m.type) : s \in Registered /\ s # m.sender}

\* publish and _deliver_message: the counters after publishing m
SyncStats(st, m) ==
  LET sent == [st EXCEPT !.messages_sent = @ + 1]
  IN IF m.recipient # NoRecipient /\ m.recipient \notin Registered
       THEN [sent EXCEPT !.messages_failed = @ + 1]
       ELSE [sent EXCEPT !.messages_delivered = @ + Cardinality(SyncTargets(m))]

\* _deliver_message: the inboxes after delivering m
SyncInbox(ib, m) ==
  [a \in Names |-> IF a \in SyncTargets(m) THEN Append(ib[a], m) ELSE ib[a]]

\* publish: what the call leaves on the stack, a drain when m was delivered
SyncStackAfter(stack, m) ==
  IF SyncTargets(m) # {} THEN Append(stack, Pass(1)) ELSE stack

\* publish called by the environment
SyncPublish(m) ==
  /\ sync_stack = <<>>
  /\ nextMsg <= MaxMsgs
  /\ m.id = nextMsg
  /\ nextMsg' = nextMsg + 1
  /\ message_history' = Append(message_history, m)
  /\ stats' = SyncStats(stats, m)
  /\ inbox' = SyncInbox(inbox, m)
  /\ sync_stack' = SyncStackAfter(sync_stack, m)
  /\ UNCHANGED <<agents, subscribers, message_queue, outbox, received>>
  /\ UNCHANGED notSyncVars

\* process_agent_messages called by the environment
SyncProcessAgentMessages ==
  /\ sync_stack = <<>>
  /\ sync_stack' = <<Pass(1)>>
  /\ UNCHANGED busVars
  /\ UNCHANGED notSyncVars

\* what process_message of agent a returns for m
SyncReplyTo(a, m, id) ==
  IF a \in AnsweringAgents THEN <<Message(id, a, m.sender, "PONG")>>
  ELSE ReplyTo(a, m, id)

\* the stack with its innermost frame replaced by f
WithTop(stack, f) == [stack EXCEPT ![Len(stack)] = f]

\* _process_all_inboxes, one turn of while agent.inbox: the envelope is
\* popped and processed; an exception is counted, a reply is published,
\* which delivers it and starts a nested drain
SyncProcessEnvelope ==
  /\ sync_stack # <<>>
  /\ LET f == sync_stack[Len(sync_stack)]
     IN /\ f.todo # <<>>
        /\ inbox[Head(f.todo)] # <<>>
        /\ LET a == Head(f.todo)
               m == Head(inbox[a])
               popped == [inbox EXCEPT ![a] = Tail(@)]
               reply == SyncReplyTo(a, m, nextMsg)
               done == WithTop(sync_stack, [f EXCEPT !.messages_processed = TRUE])
           IN /\ received' = [received EXCEPT ![a] = Append(@, m)]
              /\ IF a \in RaisingAgents
                   THEN /\ stats' = [stats EXCEPT !.messages_failed = @ + 1]
                        /\ inbox' = popped
                        /\ UNCHANGED <<sync_stack, message_history, nextMsg>>
                   ELSE IF reply = <<>>
                   THEN /\ sync_stack' = done
                        /\ inbox' = popped
                        /\ UNCHANGED <<stats, message_history, nextMsg>>
                   ELSE /\ Len(sync_stack) < MaxDepth
                        /\ nextMsg' = nextMsg + 1
                        /\ message_history' = Append(message_history, reply[1])
                        /\ stats' = SyncStats(stats, reply[1])
                        /\ inbox' = SyncInbox(popped, reply[1])
                        /\ sync_stack' = SyncStackAfter(done, reply[1])
  /\ UNCHANGED <<agents, subscribers, message_queue, outbox>>
  /\ UNCHANGED notSyncVars

\* _process_all_inboxes: the inbox of the current agent is empty, the for
\* loop goes to the next agent
SyncNextAgent ==
  /\ sync_stack # <<>>
  /\ LET f == sync_stack[Len(sync_stack)]
     IN /\ f.todo # <<>>
        /\ inbox[Head(f.todo)] = <<>>
        /\ sync_stack' = WithTop(sync_stack, [f EXCEPT !.todo = Tail(@)])
  /\ UNCHANGED busVars
  /\ UNCHANGED notSyncVars

\* _process_all_inboxes: the for loop is over; the call returns when nothing
\* was processed or the cap is reached, and starts another pass otherwise
SyncEndPass ==
  /\ sync_stack # <<>>
  /\ LET f == sync_stack[Len(sync_stack)]
     IN /\ f.todo = <<>>
        /\ sync_stack' =
             IF ~f.messages_processed \/ f.iteration >= MaxIterations
               THEN SubSeq(sync_stack, 1, Len(sync_stack) - 1)
               ELSE WithTop(sync_stack, Pass(f.iteration + 1))
  /\ UNCHANGED busVars
  /\ UNCHANGED notSyncVars

NextSync ==
  \/ \E a \in Names : sync_stack = <<>> /\ RegisterAgent(a)
  \/ \E a \in Names, t \in SubTypes : sync_stack = <<>> /\ Subscribe(a, t)
  \/ \E m \in NewMessages : SyncPublish(m)
  \/ SyncProcessAgentMessages
  \/ SyncProcessEnvelope
  \/ SyncNextAgent
  \/ SyncEndPass

(***************************************************************************)
(* EnhancedMessageBus (core/enhanced_messagebus.py)                        *)
(* register_agent, unregister_agent, subscribe and publish have the        *)
(* effects of their MessageBus namesakes; the worker routes by type.       *)
(***************************************************************************)
\* a recipient that names a kind of agent and no agent object
AgentKind == "Agent"

\* the envelopes the environment publishes on the EnhancedMessageBus
EnhancedTypes == {"TASK_ASSIGNMENT", "ANNOUNCEMENT"}

EnhancedMessages ==
  {Message(nextMsg, s, r, t) :
     s \in Senders, r \in (Names \ Senders) \cup {AgentKind, NoRecipient},
     t \in EnhancedTypes}

\* _find_similar_agent's test agent_type in name.lower(): "agent" is part of
\* every agent name of Names, a full name only of itself
IsSimilar(agent_name, name) == agent_name = AgentKind \/ agent_name = name

\* _find_similar_agent: the first registered agent, in registry order, that is
\* similar (None when there is none)
RECURSIVE FindSimilarAgent(_, _)
FindSimilarAgent(agent_name, registry) ==
  IF registry = <<>> THEN NoRecipient
  ELSE IF IsSimilar(agent_name, Head(registry)) THEN Head(registry)
  ELSE FindSimilarAgent(agent_name, Tail(registry))

\* a mutant of RouteTask: every unknown recipient is resolved by similarity,
\* whatever the envelope's type
RouteTaskForAllTypes(m) ==
  IF m.recipient # NoRecipient /\ m.recipient \notin Registered
    THEN IF FindSimilarAgent(m.recipient, agents) # NoRecipient
           THEN [deliver |-> TRUE,
                 msg |-> [m EXCEPT !.recipient = FindSimilarAgent(m.recipient, agents)]]
           ELSE [deliver |-> FALSE, msg |-> m]
    ELSE [deliver |-> TRUE, msg |-> m]

\* _route_task: a TASK_ASSIGNMENT for an unknown recipient is re-addressed to a
\* similar agent, or dropped when there is none
RouteTask(m) ==
  IF m.type = "TASK_ASSIGNMENT" /\ m.recipient # NoRecipient
     /\ m.recipient \notin Registered
    THEN IF FindSimilarAgent(m.recipient, agents) # NoRecipient
           THEN [deliver |-> TRUE,
                 msg |-> [m EXCEPT !.recipient = FindSimilarAgent(m.recipient, agents)]]
           ELSE [deliver |-> FALSE, msg |-> m]
    ELSE [deliver |-> TRUE, msg |-> m]

\* _route_and_deliver for an envelope that is neither from nor to User (the
\* routers call the ResponseManager only for those): the router of the type
\* fills in or replaces the recipient
Route(m) ==
  IF m.type = "REQUEST" /\ m.recipient = NoRecipient
    THEN [deliver |-> TRUE, msg |-> [m EXCEPT !.recipient = "Chef"]]
  ELSE IF m.type = "ERROR" /\ m.recipient = NoRecipient /\ m.sender = "Chef"
    THEN [deliver |-> TRUE, msg |-> [m EXCEPT !.recipient = "System"]]
  ELSE RouteTask(m)

\* EnhancedMessageBus._deliver_message: the agents whose receive_message is called
EnhancedTargets(m) ==
  IF m.recipient # NoRecipient
    THEN IF m.recipient \in Registered THEN {m.recipient} ELSE {}
    ELSE {s \in Subscribed(m.type) : s \in Registered /\ s # m.sender}

\* one iteration of EnhancedMessageBus._process_loop that found an envelope:
\* route, deliver, then the history or the failure counter
EnhancedDeliverStep ==
  /\ message_queue # <<>>
  /\ LET m == Head(message_queue)
         routed == Route(m)
         targets == IF routed.deliver THEN EnhancedTargets(routed.msg) ELSE {}
     IN /\ m.sender # "User" /\ routed.msg.recipient # "User"
        /\ inbox' = [a \in Names |->
                       IF a \in targets THEN Append(inbox[a], routed.msg)
                       ELSE inbox[a]]
        /\ stats' =
             IF targets = {}
               THEN [stats EXCEPT !.messages_failed = @ + 1]
             ELSE IF routed.msg.recipient # NoRecipient
               THEN [stats EXCEPT !.messages_delivered = @ + 1]
             ELSE [stats EXCEPT !.messages_delivered =
                                  @ + Cardinality(Subscribed(routed.msg.type))]
        /\ message_history' =
             IF targets = {} THEN message_history
             ELSE HistoryAfter(message_history, routed.msg)
  /\ message_queue' = Tail(message_queue)
  /\ UNCHANGED <<agents, subscribers, outbox, received, nextMsg>>
  /\ UNCHANGED notBusVars

NextEnhanced ==
  \/ \E a \in Names : RegisterAgent(a)
  \/ \E a \in Names : UnregisterAgent(a)
  \/ \E a \in Names, t \in SubTypes : Subscribe(a, t)
  \/ \E m \in EnhancedMessages : Publish(m)
  \/ EnhancedDeliverStep

(***************************************************************************)
(* ResponseManager                                                         *)
(***************************************************************************)
\* time.sleep(5) between two sweeps of the cleanup thread
CleanupPeriod == 5

\* cap and kept tail of the audit log completed_responses
AuditCap == 1000
AuditKeep == 500

\* the timeouts requests are created with, and the poll timeouts of get_response
Timeouts == {1, 2}
WaitTimeouts == {1}

\* create_request's default timeout
DefaultTimeout == 30

\* the horizon of the clock, in seconds after the construction
MaxTime == 10

ReqIds == 1..MaxReq

\* python's None for a thread id, a response slot, a request not yet created
None == 0

\* the PendingRequest objects that have been constructed
Created == {id \in ReqIds : req[id].status # "none"}

InTable(id) == id \in Range(pending_requests)

\* PendingRequest.__init__
PendingRequest(timeout) ==
  [created_at |-> now, timeout |-> timeout, response |-> None,
   status |-> "pending", thread_id |-> None]

NoRequest ==
  [created_at |-> 0, timeout |-> 0, response |-> None,
   status |-> "none", thread_id |-> None]

\* a response envelope as register_response reads it
Response(id, thread_id, type) == [id |-> id, thread_id |-> thread_id, type |-> type]

NoPoll == [active |-> FALSE, end_time |-> 0]

InitRM ==
  /\ pending_requests = <<>>
  /\ req = [id \in ReqIds |-> NoRequest]
  /\ completed_responses = <<>>
  /\ rm_stats = [requests_created |-> 0, responses_received |-> 0,
                 timeouts |-> 0, errors |-> 0]
  /\ now = 0
  /\ next_sweep = 0
  /\ poll = [id \in ReqIds |-> NoPoll]
  /\ results = [id \in ReqIds |-> <<>>]

\* a mutant of IsExpired: the age is compared in the wrong unit, so that a
\* request expires only after twice its timeout and more
IsExpiredLate(r) == now - r.created_at > 2 * r.timeout + CleanupPeriod

\* PendingRequest.is_expired
IsExpired(r) == now - r.created_at > r.timeout

\* create_request: a fresh id, a PendingRequest in the table
CreateRequest(timeout) ==
  /\ rm_stats.requests_created + 1 \in ReqIds
  /\ LET id == rm_stats.requests_created + 1
     IN /\ pending_requests' = Append(pending_requests, id)
        /\ req' = [req EXCEPT ![id] = PendingRequest(timeout)]
  /\ rm_stats' = [rm_stats EXCEPT !.requests_created = @ + 1]
  /\ UNCHANGED <<completed_responses, now, next_sweep, poll, results>>
  /\ UNCHANGED notRmVars

\* register_response, step 1: the first request of the table whose thread_id
\* equals the response's and whose status is pending (None when there is none,
\* or when the response carries no thread id)
RECURSIVE MatchByThread(_, _)
MatchByThread(table, resp) ==
  IF resp.thread_id = None \/ table = <<>> THEN None
  ELSE IF /\ req[Head(table)].thread_id = resp.thread_id
          /\ req[Head(table)].status = "pending"
         THEN Head(table)
         ELSE MatchByThread(Tail(table), resp)

\* a mutant of OldestPending: the pending request with the latest created_at
RECURSIVE NewestPending(_, _)
NewestPending(table, newest) ==
  IF table = <<>> THEN newest
  ELSE LET id == Head(table)
           better == /\ req[id].status = "pending"
                     /\ (newest = None \/ req[id].created_at > req[newest].created_at)
       IN NewestPending(Tail(table), IF better THEN id ELSE newest)

\* register_response, step 2: the pending request of the table with the
\* earliest created_at, the first of them in table order (None when there is none)
RECURSIVE OldestPending(_, _)
OldestPending(table, oldest) ==
  IF table = <<>> THEN oldest
  ELSE LET id == Head(table)
           better == /\ req[id].status = "pending"
                     /\ (oldest = None \/ req[id].created_at < req[oldest].created_at)
       IN OldestPending(Tail(table), IF better THEN id ELSE oldest)

\* register_response: the request the response is matched to
MatchingRequest(resp) ==
  IF MatchByThread(pending_requests, resp) # None
    THEN MatchByThread(pending_requests, resp)
    ELSE OldestPending(pending_requests, None)

\* register_response: what the call returns
RegisterResponseReturns(resp) == MatchingRequest(resp) # None

\* the audit log after appending a response (trimmed by the cleanup thread)
AuditTrim(log) == IF Len(log) > AuditCap THEN LastN(log, AuditKeep) ELSE log

\* register_response: audit, match, complete_with_response
RegisterResponse(resp) ==
  /\ rm_stats.responses_received < MaxReq
  /\ resp.id = rm_stats.responses_received + 1
  /\ completed_responses' = Append(completed_responses, resp)
  /\ rm_stats' = [rm_stats EXCEPT !.responses_received = @ + 1]
  /\ LET m == MatchingRequest(resp)
     IN req' = IF m = None THEN req
               ELSE [req EXCEPT ![m].response = resp.id, ![m].status = "completed"]
  /\ UNCHANGED <<pending_requests, now, next_sweep, poll, results>>
  /\ UNCHANGED notRmVars

\* get_response, line 120: the call starts and fixes its end_time
GetResponseStart(id, wait_timeout) ==
  /\ id \in Created
  /\ ~poll[id].active
  /\ poll' = [poll EXCEPT ![id] = [active |-> TRUE, end_time |-> now + wait_timeout]]
  /\ UNCHANGED <<pending_requests, req, completed_responses, rm_stats, now,
                 next_sweep, results>>
  /\ UNCHANGED notRmVars

\* what one pass of get_response's loop returns for a request found in the table
\* in a state it acts on
PollResult(id) ==
  IF req[id].status = "completed"
    THEN [kind |-> "success", response |-> req[id].response]
  ELSE IF req[id].status = "error"
    THEN [kind |-> "error", response |-> req[id].response]
  ELSE [kind |-> "request_timeout", response |-> None]

\* get_response: a pass of the loop finds the request in the table, completed,
\* failed or expired
CanReturn(id) ==
  /\ poll[id].active
  /\ now < poll[id].end_time
  /\ InTable(id)
  /\ req[id].status \in {"completed", "error"} \/ IsExpired(req[id])

\* get_response: a pass of the loop that finds the request completed, failed or
\* expired: the request leaves the table and the call returns
GetResponseReturn(id) ==
  /\ CanReturn(id)
  /\ req' = IF req[id].status \in {"completed", "error"} THEN req
            ELSE [req EXCEPT ![id].status = "timeout"]
  /\ rm_stats' = IF req[id].status \in {"completed", "error"} THEN rm_stats
                 ELSE [rm_stats EXCEPT !.timeouts = @ + 1]
  /\ pending_requests' = Without(pending_requests, id)
  /\ results' = [results EXCEPT ![id] = Append(@, PollResult(id))]
  /\ poll' = [poll EXCEPT ![id] = NoPoll]
  /\ UNCHANGED <<completed_responses, now, next_sweep>>
  /\ UNCHANGED notRmVars

\* get_response: the loop ends at end_time and the call reports its own timeout
GetResponseTimeout(id) ==
  /\ poll[id].active
  /\ now >= poll[id].end_time
  /\ poll' = [poll EXCEPT ![id] = NoPoll]
  /\ UNCHANGED <<pending_requests, req, completed_responses, rm_stats, now,
                 next_sweep, results>>
  /\ UNCHANGED notRmVars

\* a mutant of Expired: the sweep looks at the pending requests only
ExpiredPendingOnly ==
  {id \in Range(pending_requests) :
     IsExpired(req[id]) /\ req[id].status = "pending"}

\* _cleanup_loop: the requests of the table one sweep removes
Expired == {id \in Range(pending_requests) : IsExpired(req[id])}

\* a mutant of SweptTable: a request that holds a response is not deleted
SweptTableKeepsAnswered ==
  SelectSeq(pending_requests,
            LAMBDA id : id \notin Expired \/ req[id].response # None)

\* _cleanup_loop: the table after del pending_requests[req_id] for the expired
SweptTable == SelectSeq(pending_requests, LAMBDA id : id \notin Expired)

\* _cleanup_loop: one sweep, then time.sleep(5)
Sweep ==
  /\ now >= next_sweep
  /\ req' = [id \in ReqIds |->
               IF id \in Expired THEN [req[id] EXCEPT !.status = "timeout"]
               ELSE req[id]]
  /\ rm_stats' = [rm_stats EXCEPT !.timeouts = @ + Cardinality(Expired)]
  /\ pending_requests' = SweptTable
  /\ completed_responses' = AuditTrim(completed_responses)
  /\ next_sweep' = now + CleanupPeriod
  /\ UNCHANGED <<now, poll, results>>
  /\ UNCHANGED notRmVars

\* a second passes; the cleanup thread leaves time.sleep when its 5 s are over,
\* so the clock does not pass next_sweep before the sweep has run, and a call
\* of get_response looks at the table every 10 ms, so no second passes while
\* it can return
Tick(horizon) ==
  /\ now < horizon
  /\ now < next_sweep
  /\ \A id \in ReqIds : ~CanReturn(id)
  /\ now' = now + 1
  /\ UNCHANGED <<pending_requests, req, completed_responses, rm_stats,
                 next_sweep, poll, results>>
  /\ UNCHANGED notRmVars

\* a response envelope the environment registers, with thread id th
NewResponse(th) == Response(rm_stats.responses_received + 1, th, "RESPONSE")

\* the operations on the requests that are there
RMStep ==
  \/ \E id \in ReqIds, w \in WaitTimeouts : GetResponseStart(id, w)
  \/ \E id \in ReqIds : GetResponseReturn(id)
  \/ \E id \in ReqIds : GetResponseTimeout(id)
  \/ Sweep

\* requests with short timeouts, followed until they expire; the responses
\* carry no thread id
NextRM ==
  \/ \E t \in Timeouts :
       rm_stats.requests_created < MaxTimedReq /\ CreateRequest(t)
  \/ RegisterResponse(NewResponse(None))
  \/ RMStep
  \/ Tick(MaxTime)

\* several requests with the default timeout, in their first seconds; a response
\* carries the id of a request as thread id, or none
NextRMMatch ==
  \/ rm_stats.requests_created < MaxReq /\ CreateRequest(DefaultTimeout)
  \/ \E th \in Created \cup {None} : RegisterResponse(NewResponse(th))
  \/ RMStep
  \/ Tick(MatchHorizon)

(***************************************************************************)
(* Debate, DebateRound (core/debate.py) and DebateModerator                *)
(***************************************************************************)
\* Debate.__init__: configuration
MaxRounds == 3
MinParticipants == 2
MaxParticipants == 7

\* the ids create_debate draws (uuid4)
DebateIds == {"d1"}

\* the participant lists create_debate is called with
ParticipantLists == {<<"Dev1", "Dev2", "Dev3">>, <<"Dev1">>}

\* the senders of ARGUMENT_SUBMISSION envelopes: the participants and a stranger
Submitters == {"Dev1", "Dev2", "Dev3", "Visitor"}

\* a key the analysis dict does not hold
NoKey == "<absent>"

\* what analyze_round hands back: a dict with or without the keys action and
\* synthèse (think's own fallback is action continuer without synthèse), or
\* JSON that is not an object
Analyses ==
  {[is_dict |-> TRUE, action |-> "continuer", synthese |-> NoKey],
   [is_dict |-> TRUE, action |-> "conclure", synthese |-> "synthèse du modérateur"],
   [is_dict |-> TRUE, action |-> NoKey, synthese |-> NoKey],
   [is_dict |-> FALSE, action |-> NoKey, synthese |-> NoKey]}

\* the analysis _analyze_and_continue_debate concludes with after an exception
ErrorAnalysis ==
  [is_dict |-> TRUE, action |-> NoKey, synthese |-> "Débat terminé suite à erreur"]

\* dict.get(key, default)
Get(value, default) == IF value = NoKey THEN default ELSE value

NoDebate ==
  [participants |-> <<>>, rounds |-> <<>>, status |-> "none", result |-> <<>>]

NoTracking == [tracked |-> FALSE, participants_invited |-> <<>>,
               participants_responded |-> <<>>, arguments_received |-> <<>>,
               round_complete |-> FALSE]

\* the tracking entry create_debate and start_round write
FreshTracking == [NoTracking EXCEPT !.tracked = TRUE]

\* the Moderator's state as one value, for the handlers that call each other
ModState ==
  [debates |-> active_debates, tracking |-> debate_rounds_status,
   outbox |-> mod_outbox, errors |-> {},
   analysed |-> mod_handled.analysed, concluded |-> mod_handled.concluded]

\* logger.error in the except branch of a method, for a debate
Logged(method, d) == [method |-> method, debate_id |-> d]

ActiveIn(M) == {d \in DebateIds : M.debates[d].status # "none"}

InitMod ==
  /\ active_debates = [d \in DebateIds |-> NoDebate]
  /\ debate_rounds_status = [d \in DebateIds |-> NoTracking]
  /\ mod_outbox = <<>>
  /\ mod_errors = {}
  /\ mod_handled = [START_ROUND |-> 0, REDUNDANT |-> 0,
                    analysed |-> <<>>, concluded |-> <<>>]

\* Debate.add_participant, for each element of the list in turn
RECURSIVE AddParticipants(_, _)
AddParticipants(have, more) ==
  IF more = <<>> THEN have
  ELSE AddParticipants(
         IF Head(more) \notin Range(have) /\ Len(have) < MaxParticipants
           THEN Append(have, Head(more)) ELSE have,
         Tail(more))

\* Debate.can_start
CanStart(deb) == Len(deb.participants) >= MinParticipants

\* DebateRound.__init__
DebateRound(number, participants) ==
  [number |-> number, participants |-> participants,
   arguments |-> [p \in Range(participants) |-> <<>>], status |-> "open"]

\* Debate.start_round, when can_start holds
DebateStartRound(deb) ==
  [deb EXCEPT !.rounds = Append(@, DebateRound(Len(deb.rounds) + 1, deb.participants)),
              !.status = "active"]

\* Argument.__init__ and the author DebateRound.add_argument sets
Argument(author) == [position |-> "pour", author |-> author]

\* DebateRound.add_argument: only a participant that is a key of arguments
AddArgument(round, participant) ==
  IF participant \in DOMAIN round.arguments
    THEN [round EXCEPT !.arguments[participant] = Append(@, Argument(participant))]
    ELSE round

(***************************************************************************)
(* A Debate and its DebateRounds called directly (core/debate.py), as the  *)
(* tests do.  A round keeps the debate's participants list object, not a   *)
(* copy: an append to the list is seen through every round.                *)
(***************************************************************************)
\* the rounds started and the arguments added on the Debate object
MaxApiRounds == 2
MaxApiArguments == 2

\* the names given to add_participant and add_argument
ApiNames == {"Dev1", "Dev2", "Dev3"}

\* Debate.__init__
NewDebate ==
  [participants |-> <<>>, rounds |-> <<>>, status |-> "open", result |-> <<>>]

InitApi == debate = NewDebate

\* the arguments stored in the rounds of deb
RECURSIVE ArgumentCount(_)
ArgumentCount(rounds) ==
  IF rounds = <<>> THEN 0
  ELSE LET r == Head(rounds)
           ps == DOMAIN r.arguments
           n[S \in SUBSET ps] ==
             IF S = {} THEN 0
             ELSE LET p == CHOOSE x \in S : TRUE
                  IN Len(r.arguments[p]) + n[S \ {p}]
       IN n[ps] + ArgumentCount(Tail(rounds))

\* Debate.add_participant: the append changes the list every round holds
ApiAddParticipant(p) ==
  /\ LET list == AddParticipants(debate.participants, <<p>>)
     IN debate' = [debate EXCEPT
                     !.participants = list,
                     !.rounds = [i \in DOMAIN @ |-> [@[i] EXCEPT !.participants = list]]]
  /\ UNCHANGED notApiVars

\* Debate.start_round (ValueError and no change when can_start is false)
ApiStartRound ==
  /\ Len(debate.rounds) < MaxApiRounds
  /\ debate' = IF CanStart(debate) THEN DebateStartRound(debate) ELSE debate
  /\ UNCHANGED notApiVars

\* Debate.close_current_round and DebateRound.close
ApiCloseCurrentRound ==
  /\ debate' = IF debate.rounds = <<>> THEN debate
               ELSE [debate EXCEPT !.rounds[Len(debate.rounds)].status = "closed"]
  /\ UNCHANGED notApiVars

\* DebateRound.add_argument on round number r
ApiAddArgument(r, p) ==
  /\ r \in DOMAIN debate.rounds
  /\ ArgumentCount(debate.rounds) < MaxApiArguments
  /\ debate' = [debate EXCEPT !.rounds[r] = AddArgument(@, p)]
  /\ UNCHANGED notApiVars

NextApi ==
  \/ \E p \in ApiNames : ApiAddParticipant(p)
  \/ ApiStartRound
  \/ ApiCloseCurrentRound
  \/ \E r \in 1..MaxApiRounds, p \in ApiNames : ApiAddArgument(r, p)

\* _get_previous_arguments: participant and round of every argument of the
\* rounds before the current one
RECURSIVE ArgsOf(_, _)
ArgsOf(round, ps) ==
  IF ps = <<>> THEN <<>>
  ELSE [i \in 1..Len(round.arguments[Head(ps)]) |->
          [participant |-> Head(ps), round |-> round.number]]
       \o ArgsOf(round, Tail(ps))

RECURSIVE PreviousArguments(_)
PreviousArguments(rounds) ==
  IF Len(rounds) <= 1 THEN <<>>
  ELSE PreviousArguments(SubSeq(rounds, 1, Len(rounds) - 1)) \o <<>>
       \o ArgsOf(rounds[Len(rounds) - 1], rounds[Len(rounds) - 1].participants)

\* _send_debate_invitations: one DEBATE_INVITATION per participant
Invitation(d, deb, participant) ==
  [type |-> "DEBATE_INVITATION", recipient |-> participant, debate_id |-> d,
   round |-> deb.rounds[Len(deb.rounds)].number,
   participants |-> deb.participants,
   arguments |-> PreviousArguments(deb.rounds)]

SendDebateInvitations(M, d) ==
  LET deb == M.debates[d]
  IN [M EXCEPT
        !.outbox = @ \o [i \in 1..Len(deb.participants) |->
                           Invitation(d, deb, deb.participants[i])],
        !.tracking[d].participants_invited = @ \o deb.participants]

\* a mutant of StartRound: the tracking entry is not reset
StartRoundKeepsTracking(M, d) ==
  IF d \notin ActiveIn(M) THEN M
  ELSE IF ~CanStart(M.debates[d])
    THEN [M EXCEPT !.errors = @ \cup {Logged("start_round", d)}]
    ELSE SendDebateInvitations([M EXCEPT !.debates[d] = DebateStartRound(@)], d)

\* start_round: a new round, the tracking reset, the invitations; the ValueError
\* of Debate.start_round is caught and logged
StartRound(M, d) ==
  IF d \notin ActiveIn(M) THEN M
  ELSE IF ~CanStart(M.debates[d])
    THEN [M EXCEPT !.errors = @ \cup {Logged("start_round", d)}]
    ELSE SendDebateInvitations(
           [M EXCEPT !.debates[d] = DebateStartRound(@),
                     !.tracking[d] = FreshTracking], d)

\* a mutant of ConcludeDebate: the tracking entry is kept
ConcludeDebateKeepsTracking(M, d, analysis) ==
  LET deb == M.debates[d]
      result == [debate_id |-> d, rounds |-> Len(deb.rounds),
                 participants |-> deb.participants,
                 synthesis |-> Get(analysis.synthese, "Débat terminé")]
  IN [M EXCEPT
        !.debates[d].status = "closed",
        !.debates[d].result = <<result>>,
        !.concluded = Append(@, d),
        !.outbox = Append(@, [type |-> "DEBATE_CONCLUSION",
                              recipient |-> "DebateManager",
                              debate_id |-> d, result |-> result])]

\* conclude_debate: the result, Debate.conclude, the tracking entry deleted,
\* the DEBATE_CONCLUSION queued; the debate stays in active_debates
ConcludeDebate(M, d, analysis) ==
  LET deb == M.debates[d]
      result == [debate_id |-> d, rounds |-> Len(deb.rounds),
                 participants |-> deb.participants,
                 synthesis |-> Get(analysis.synthese, "Débat terminé")]
  IN [M EXCEPT
        !.debates[d].status = "closed",
        !.debates[d].result = <<result>>,
        !.tracking[d] = NoTracking,
        !.concluded = Append(@, d),
        !.outbox = Append(@, [type |-> "DEBATE_CONCLUSION",
                              recipient |-> "DebateManager",
                              debate_id |-> d, result |-> result])]

\* _analyze_and_continue_debate: another round only for action continuer and
\* fewer than 3 rounds
ShouldContinue(action, nrounds) ==
  action = "continuer" /\ nrounds < 3

\* _analyze_and_continue_debate; analysis.get raises for JSON that is no object,
\* and the except branch concludes
AnalyzeAndContinueDebate(M, d, analysis) ==
  LET M0 == [M EXCEPT !.analysed =
               Append(@, [debate_id |-> d, round |-> Len(M.debates[d].rounds)])]
  IN IF ~analysis.is_dict
       THEN ConcludeDebate([M0 EXCEPT !.errors = @ \cup {Logged("_analyze_and_continue_debate", d)}],
                           d, ErrorAnalysis)
     ELSE IF ShouldContinue(Get(analysis.action, "conclure"), Len(M.debates[d].rounds))
       THEN StartRound(M0, d)
       ELSE ConcludeDebate(M0, d, analysis)

\* a mutant of RoundComplete: the answers are counted, not compared as a set
RoundCompleteByCount(expected, arguments_received) ==
  Len(arguments_received) >= Len(expected)

\* a mutant of RoundComplete: the set comparison is turned around
RoundCompleteSubset(expected, arguments_received) ==
  Range(arguments_received) \subseteq Range(expected)

\* _check_round_completion: set(arguments_received) >= set(debate.participants)
RoundComplete(expected, arguments_received) ==
  Range(expected) \subseteq Range(arguments_received)

CheckRoundCompletion(M, d, analysis) ==
  IF RoundComplete(M.debates[d].participants, M.tracking[d].arguments_received)
    THEN AnalyzeAndContinueDebate(M, d, analysis)
    ELSE M

\* handle_argument_submission; the KeyError on a tracking entry that
\* conclude_debate deleted is caught after the argument was added
HandleArgumentSubmissionOn(M, d, participant, analysis) ==
  IF d \notin ActiveIn(M) \/ M.debates[d].rounds = <<>> THEN M
  ELSE LET n == Len(M.debates[d].rounds)
           M1 == [M EXCEPT !.debates[d].rounds[n] = AddArgument(@, participant)]
       IN IF ~M1.tracking[d].tracked
            THEN [M1 EXCEPT !.errors = @ \cup {Logged("handle_argument_submission", d)}]
            ELSE CheckRoundCompletion(
                   [M1 EXCEPT !.tracking[d].arguments_received = Append(@, participant)],
                   d, analysis)

\* a submission that is not a participant's first answer to the current round:
\* a repeated one, a stranger's, or one for a debate without tracking entry
Redundant(d, participant) ==
  \/ ~debate_rounds_status[d].tracked
  \/ participant \notin Range(active_debates[d].participants)
  \/ participant \in Range(debate_rounds_status[d].arguments_received)

\* the Moderator's variables after a handler
Becomes(M) ==
  /\ active_debates' = M.debates
  /\ debate_rounds_status' = M.tracking
  /\ mod_outbox' = M.outbox
  /\ mod_errors' = M.errors

\* create_debate: the debate, its participants, the tracking, the first round
CreateDebate(d, participants) ==
  /\ mod_outbox = <<>>
  /\ active_debates[d].status = "none"
  /\ LET deb == [NoDebate EXCEPT !.participants = AddParticipants(<<>>, participants),
                                 !.status = "open"]
     IN Becomes(StartRound([ModState EXCEPT !.debates[d] = deb,
                                            !.tracking[d] = FreshTracking], d))
  /\ UNCHANGED mod_handled
  /\ UNCHANGED notModVars

\* process_message on a START_ROUND envelope naming debate d
HandleStartRound(d) ==
  /\ mod_outbox = <<>>
  /\ mod_handled.START_ROUND < MaxStarts
  /\ d \in ActiveIn(ModState)
  /\ Becomes(StartRound(ModState, d))
  /\ mod_handled' = [mod_handled EXCEPT !.START_ROUND = @ + 1]
  /\ UNCHANGED notModVars

\* process_message on an ARGUMENT_SUBMISSION envelope for debate d; the analysis
\* is what analyze_round returns if the submission completes the round
HandleArgumentSubmission(d, participant, analysis) ==
  /\ mod_outbox = <<>>
  /\ d \in ActiveIn(ModState)
  /\ Redundant(d, participant) => mod_handled.REDUNDANT < MaxRedundant
  /\ LET after == HandleArgumentSubmissionOn(ModState, d, participant, analysis)
     IN /\ Becomes(after)
        /\ mod_handled' = [mod_handled EXCEPT
                             !.REDUNDANT = IF Redundant(d, participant) THEN @ + 1 ELSE @,
                             !.analysed = after.analysed,
                             !.concluded = after.concluded]
  /\ UNCHANGED notModVars

\* the bus driver (process_agent_messages) publishes the Moderator's outbox and
\* clears it; it does so after each envelope it has handed to the Moderator, so
\* the handlers above start from an empty outbox
DrainOutbox ==
  /\ mod_outbox # <<>>
  /\ mod_outbox' = <<>>
  /\ mod_errors' = {}
  /\ UNCHANGED <<active_debates, debate_rounds_status, mod_handled>>
  /\ UNCHANGED notModVars

NextDebate ==
  \/ \E d \in DebateIds, ps \in ParticipantLists : CreateDebate(d, ps)
  \/ \E d \in DebateIds : HandleStartRound(d)
  \/ \E d \in DebateIds, p \in Submitters, an \in Analyses :
       HandleArgumentSubmission(d, p, an)
  \/ DrainOutbox

(***************************************************************************)
(* The participants of a debate (agents/mixins/debater.py) and the         *)
(* Moderator's process_message, joined by the bus: the Moderator's outbox  *)
(* is published and delivered to the inboxes of the participants, and a    *)
(* participant's reply is delivered to the Moderator's inbox.              *)
(***************************************************************************)
\* the agents with the debate capability registered on the bus
Debaters == {"Dev1", "Dev2", "Dev3"}

\* number of ARGUMENT_SUBMISSION envelopes published by callers of the bus
\* other than the participants' handlers
MaxSubmitted == 2

InitDebaters ==
  /\ part_inbox = [p \in Debaters |-> <<>>]
  /\ mod_inbox = <<>>
  /\ env_submitted = 0

\* python's None, for a process_message that returns no envelope
NoReply == [type |-> "None"]

\* handle_debate_invitation
HandleDebateInvitation(p, m) ==
  [type |-> "DEBATE_ACCEPTANCE", sender |-> p, recipient |-> m.sender,
   debate_id |-> m.debate_id]

\* handle_argument_request, with the argument participate_in_debate returns or
\* the fallback argument
HandleArgumentRequest(p, m) ==
  [type |-> "ARGUMENT_SUBMISSION", sender |-> p, recipient |-> m.sender,
   debate_id |-> m.debate_id]

\* process_message of a participant: the handler of the envelope's type
DebaterProcessMessage(p, m) ==
  IF m.type = "DEBATE_INVITATION" THEN HandleDebateInvitation(p, m)
  ELSE IF m.type = "REQUEST_ARGUMENT" THEN HandleArgumentRequest(p, m)
  ELSE NoReply

\* the envelopes of a sequence addressed to participant p, with their sender
ToDebater(box, p) ==
  LET mine == SelectSeq(box, LAMBDA m : m.recipient = p)
  IN [i \in DOMAIN mine |->
        [type |-> mine[i].type, sender |-> "Moderator", debate_id |-> mine[i].debate_id,
         round |-> IF mine[i].type = "DEBATE_INVITATION" THEN mine[i].round ELSE 0]]

\* the bus driver publishes the Moderator's outbox and the worker delivers each
\* envelope to its recipient's inbox; an envelope for a name that is not
\* registered (DebateManager) is dropped
PublishOutbox ==
  /\ mod_outbox # <<>>
  /\ part_inbox' = [p \in Debaters |-> part_inbox[p] \o ToDebater(mod_outbox, p)]
  /\ mod_outbox' = <<>>
  /\ mod_errors' = {}
  /\ UNCHANGED <<active_debates, debate_rounds_status, mod_handled, mod_inbox,
                 env_submitted>>
  /\ UNCHANGED <<busVars, rmVars, syncVars, threadVars, apiVars, voteVars, cacheVars, sysVars>>

\* the bus driver hands the first envelope of participant p's inbox to
\* process_message, publishes the reply, and the worker delivers it
DebaterProcess(p) ==
  /\ part_inbox[p] # <<>>
  /\ LET reply == DebaterProcessMessage(p, Head(part_inbox[p]))
     IN mod_inbox' = IF reply = NoReply \/ reply.recipient # "Moderator"
                       THEN mod_inbox ELSE Append(mod_inbox, reply)
  /\ part_inbox' = [part_inbox EXCEPT ![p] = Tail(@)]
  /\ UNCHANGED <<modVars, env_submitted>>
  /\ UNCHANGED <<busVars, rmVars, syncVars, threadVars, apiVars, voteVars, cacheVars, sysVars>>

\* DebateModerator.process_message on the first envelope of the inbox: the
\* handler of its type; a type without handler is logged as unknown
ModeratorProcess ==
  /\ mod_inbox # <<>>
  /\ mod_outbox = <<>>
  /\ mod_inbox' = Tail(mod_inbox)
  /\ LET m == Head(mod_inbox)
     IN IF m.type \in {"ARGUMENT_SUBMISSION", "SUBMIT_ARGUMENT"}
          THEN \E an \in Analyses :
                 LET after == HandleArgumentSubmissionOn(ModState, m.debate_id, m.sender, an)
                 IN /\ Becomes(after)
                    /\ mod_handled' = [mod_handled EXCEPT !.analysed = after.analysed,
                                                          !.concluded = after.concluded]
          ELSE UNCHANGED modVars
  /\ UNCHANGED <<part_inbox, env_submitted>>
  /\ UNCHANGED <<busVars, rmVars, syncVars, threadVars, apiVars, voteVars, cacheVars, sysVars>>

\* a caller of the bus publishes an ARGUMENT_SUBMISSION in the name of p, and
\* the worker delivers it to the Moderator.  The envelope's content names the
\* debate, the argument and the participant; written_for is not part of it: it
\* records the round that was the debate's last one when the envelope was
\* written
PublishSubmission(d, p) ==
  /\ env_submitted < MaxSubmitted
  /\ env_submitted' = env_submitted + 1
  /\ mod_inbox' = Append(mod_inbox, [type |-> "ARGUMENT_SUBMISSION", sender |-> p,
                                     recipient |-> "Moderator", debate_id |-> d,
                                     written_for |-> Len(active_debates[d].rounds)])
  /\ UNCHANGED <<modVars, part_inbox>>
  /\ UNCHANGED <<busVars, rmVars, syncVars, threadVars, apiVars, voteVars, cacheVars, sysVars>>

NextDebaters ==
  \/ \E d \in DebateIds, ps \in ParticipantLists : CreateDebate(d, ps)
  \/ PublishOutbox
  \/ \E p \in Debaters : DebaterProcess(p)
  \/ ModeratorProcess
  \/ \E d \in DebateIds, p \in Debaters : PublishSubmission(d, p)

(***************************************************************************)
(* The cache of processed envelopes in SimpleChef.process_message and      *)
(* AgentChefProjet.process_message.  An envelope's key is its sender, its  *)
(* type and the hash of its content; the envelopes of the model have one   *)
(* sender and one type with a handler, and contents numbered 1, 2, ...     *)
(***************************************************************************)
\* len(self.processed_messages) > 50 in SimpleChef, > 100 in AgentChefProjet
SimpleChefThreshold == 50
ChefProjetThreshold == 100

CachingAgents == {"Chef", "ChefProjet"}

Threshold(a) == IF a = "Chef" THEN SimpleChefThreshold ELSE ChefProjetThreshold

\* number of envelopes that repeat the content of an earlier one, for each agent
MaxRedelivered == 2

\* the distinct contents an agent is sent: enough to pass its threshold
MaxContents(a) == Threshold(a) + 2

InitCaches ==
  /\ processed_messages = [a \in CachingAgents |-> {}]
  /\ calls = [a \in CachingAgents |->
               [contents |-> 0, redelivered |-> 0, last |-> 0, handled |-> FALSE]]

\* the cache after process_message has added a key that was not in it: it is
\* cleared when it has grown past the threshold
CacheAfter(cache, key, threshold) ==
  IF Cardinality(cache \cup {key}) > threshold THEN {} ELSE cache \cup {key}

\* process_message of agent a on an envelope of content c: a key found in the
\* cache ends the call with None; otherwise the key is added, the cache cleared
\* if it is too large, and the handler is called
CachedProcessMessage(a, c) ==
  /\ processed_messages' =
       [processed_messages EXCEPT ![a] =
          IF c \in @ THEN @ ELSE CacheAfter(@, c, Threshold(a))]
  /\ calls' = [calls EXCEPT ![a].last = c,
                            ![a].handled = c \notin processed_messages[a],
                            ![a].contents = IF c > @ THEN c ELSE @,
                            ![a].redelivered = IF c > calls[a].contents THEN @ ELSE @ + 1]
  /\ UNCHANGED <<busVars, rmVars, modVars, syncVars, threadVars, apiVars, voteVars,
                 debaterVars, sysVars>>

\* an envelope with a content the agent has not been sent before
ProcessNew(a) ==
  /\ calls[a].contents < MaxContents(a)
  /\ CachedProcessMessage(a, calls[a].contents + 1)

\* an envelope with the content of the last or of the last but one new envelope
ProcessAgain(a, c) ==
  /\ calls[a].redelivered < MaxRedelivered
  /\ c >= 1
  /\ c \in {calls[a].contents, calls[a].contents - 1}
  /\ CachedProcessMessage(a, c)

NextCaches ==
  \/ \E a \in CachingAgents : ProcessNew(a)
  \/ \E a \in CachingAgents, c \in 1..(ChefProjetThreshold + 2) : ProcessAgain(a, c)

(***************************************************************************)
(* The complete system (main_complete.py): process_request on the main     *)
(* thread, the EnhancedMessageBus worker that routes and delivers, and     *)
(* process_agent_messages, which the main thread runs between two polls of *)
(* get_response.  SimpleChef is registered first, the UserResponseCollector*)
(* ("User") second; the AgentPhilosophe is sent nothing.  The requests     *)
(* have distinct texts, so SimpleChef's cache lets each of them through.   *)
(***************************************************************************)
\* the calls of process_request
MaxUserRequests == 1

\* self.agents in registration order
SysAgents == <<"Chef", "User">>

\* a Message with the thread_id it was built with
Envelope(id, sender, recipient, type, thread_id) ==
  [id |-> id, sender |-> sender, recipient |-> recipient, type |-> type,
   thread_id |-> thread_id]

InitSys ==
  /\ sys_queue = <<>>
  /\ sys_inbox = [a \in Range(SysAgents) |-> <<>>]
  /\ sys_driver = [agent |-> 1, pc |-> "idle", batch |-> <<>>]
  /\ sys_log = [requests |-> <<>>, published |-> 0, appended |-> {},
                processed |-> <<>>]

\* the ResponseManager after create_request(request, timeout)
CreateRequestIn(timeout) ==
  LET id == rm_stats.requests_created + 1
  IN /\ pending_requests' = Append(pending_requests, id)
     /\ req' = [req EXCEPT ![id] = PendingRequest(timeout)]
     /\ rm_stats' = [rm_stats EXCEPT !.requests_created = @ + 1]
     /\ UNCHANGED <<completed_responses, now, next_sweep, poll, results>>

\* the ResponseManager after register_response(message)
RegisterResponseIn(message) ==
  /\ completed_responses' = AuditTrim(Append(completed_responses, message))
  /\ rm_stats' = [rm_stats EXCEPT !.responses_received = @ + 1]
  /\ LET m == MatchingRequest(message)
     IN req' = IF m = None THEN req
               ELSE [req EXCEPT ![m].response = message.id, ![m].status = "completed"]
  /\ UNCHANGED <<pending_requests, now, next_sweep, poll, results>>

\* the request process_request is waiting for (None when it is in no call)
Outstanding ==
  IF sys_log.requests = <<>> THEN None
  ELSE LET id == sys_log.requests[Len(sys_log.requests)]
       IN IF results[id] = <<>> THEN id ELSE None

\* process_request up to its loop: create_request, then the REQUEST envelope
\* from "User" with no recipient and the request id as thread_id is published
ProcessRequest ==
  /\ Outstanding = None
  /\ Len(sys_log.requests) < MaxUserRequests
  /\ rm_stats.requests_created + 2 \in ReqIds
  /\ CreateRequestIn(DefaultTimeout)
  /\ LET id == rm_stats.requests_created + 1
         e == sys_log.published + 1
     IN /\ sys_queue' = Append(sys_queue, Envelope(e, "User", NoRecipient, "REQUEST", id))
        /\ sys_log' = [sys_log EXCEPT !.requests = Append(@, id), !.published = e]
  /\ sys_driver' = [agent |-> 1, pc |-> "copy", batch |-> <<>>]
  /\ UNCHANGED sys_inbox
  /\ UNCHANGED <<busVars, modVars, syncVars, threadVars, apiVars, voteVars,
                 debaterVars, cacheVars>>

\* _route_request, _route_response: the recipient the router leaves in the
\* envelope
SysRouted(m) ==
  IF m.type = "REQUEST" /\ m.recipient = NoRecipient
    THEN [m EXCEPT !.recipient = "Chef"]
    ELSE m

\* the worker: one envelope leaves the queue, is routed (a REQUEST from "User"
\* creates a request, a RESPONSE to "User" is registered) and is appended to
\* its recipient's inbox, whatever process_agent_messages is doing
WorkerRouteAndDeliver ==
  /\ sys_queue # <<>>
  /\ LET m == SysRouted(Head(sys_queue))
     IN /\ IF m.type = "REQUEST" /\ m.sender = "User"
             THEN CreateRequestIn(DefaultTimeout)
           ELSE IF m.type = "RESPONSE" /\ m.recipient = "User"
             THEN RegisterResponseIn(m)
           ELSE UNCHANGED rmVars
        /\ sys_inbox' = [sys_inbox EXCEPT ![m.recipient] = Append(@, m)]
        /\ sys_log' = [sys_log EXCEPT !.appended = @ \cup {<<m.recipient, m.id>>}]
  /\ sys_queue' = Tail(sys_queue)
  /\ UNCHANGED sys_driver
  /\ UNCHANGED <<busVars, modVars, syncVars, threadVars, apiVars, voteVars,
                 debaterVars, cacheVars>>

\* process_agent_messages, line 236: messages_to_process = list(agent.inbox)
ProcessCopy ==
  /\ sys_driver.pc = "copy"
  /\ sys_driver' = [sys_driver EXCEPT !.pc = "clear",
                                      !.batch = sys_inbox[SysAgents[sys_driver.agent]]]
  /\ UNCHANGED <<sys_queue, sys_inbox, sys_log>>
  /\ UNCHANGED <<busVars, rmVars, modVars, syncVars, threadVars, apiVars, voteVars,
                 debaterVars, cacheVars>>

\* process_agent_messages, line 237: agent.inbox.clear()
ProcessClear ==
  /\ sys_driver.pc = "clear"
  /\ sys_inbox' = [sys_inbox EXCEPT ![SysAgents[sys_driver.agent]] = <<>>]
  /\ sys_driver' = [sys_driver EXCEPT !.pc = "process"]
  /\ UNCHANGED <<sys_queue, sys_log>>
  /\ UNCHANGED <<busVars, rmVars, modVars, syncVars, threadVars, apiVars, voteVars,
                 debaterVars, cacheVars>>

\* SimpleChef.process_message: a REQUEST from "User" is answered with a
\* RESPONSE to "User", built without a thread_id
SimpleChefReply(m, id) ==
  IF m.type = "REQUEST" /\ m.sender = "User"
    THEN <<Envelope(id, "Chef", "User", "RESPONSE", None)>>
    ELSE <<>>

\* process_agent_messages, lines 239-243: agent.process_message on the next
\* copied message; what it returns is published.  The UserResponseCollector
\* registers a RESPONSE to "User" and returns nothing
ProcessOne ==
  /\ sys_driver.pc = "process"
  /\ sys_driver.batch # <<>>
  /\ LET a == SysAgents[sys_driver.agent]
         m == Head(sys_driver.batch)
         reply == IF a = "Chef" THEN SimpleChefReply(m, sys_log.published + 1)
                  ELSE <<>>
     IN /\ IF a = "User" /\ m.recipient = "User" /\ m.type = "RESPONSE"
             THEN RegisterResponseIn(m)
             ELSE UNCHANGED rmVars
        /\ sys_queue' = sys_queue \o reply
        /\ sys_log' = [sys_log EXCEPT !.processed = Append(@, <<a, m.id>>),
                                      !.published = @ + Len(reply)]
  /\ sys_driver' = [sys_driver EXCEPT !.batch = Tail(@)]
  /\ UNCHANGED sys_inbox
  /\ UNCHANGED <<busVars, modVars, syncVars, threadVars, apiVars, voteVars,
                 debaterVars, cacheVars>>

\* process_agent_messages: the copied messages are done (the outboxes are
\* empty), the loop goes to the next agent; after the last one the call returns
ProcessNextAgent ==
  /\ sys_driver.pc = "process"
  /\ sys_driver.batch = <<>>
  /\ sys_driver' = IF sys_driver.agent < Len(SysAgents)
                     THEN [sys_driver EXCEPT !.agent = @ + 1, !.pc = "copy"]
                     ELSE [sys_driver EXCEPT !.agent = 1, !.pc = "idle"]
  /\ UNCHANGED <<sys_queue, sys_inbox, sys_log>>
  /\ UNCHANGED <<busVars, rmVars, modVars, syncVars, threadVars, apiVars, voteVars,
                 debaterVars, cacheVars>>

\* process_request, line 124: get_response between two calls of
\* process_agent_messages finds the request completed, removes it from the
\* table and process_request returns it
RetrieveResponse ==
  /\ sys_driver.pc = "idle"
  /\ Outstanding # None
  /\ InTable(Outstanding)
  /\ req[Outstanding].status = "completed"
  /\ pending_requests' = Without(pending_requests, Outstanding)
  /\ results' = [results EXCEPT ![Outstanding] = Append(@, PollResult(Outstanding))]
  /\ UNCHANGED <<req, completed_responses, rm_stats, now, next_sweep, poll>>
  /\ UNCHANGED sysVars
  /\ UNCHANGED <<busVars, modVars, syncVars, threadVars, apiVars, voteVars,
                 debaterVars, cacheVars>>

\* process_request, line 121: get_response found nothing to return, the loop
\* calls process_agent_messages again
ProcessAgentMessagesAgain ==
  /\ sys_driver.pc = "idle"
  /\ Outstanding # None
  /\ ~(InTable(Outstanding) /\ req[Outstanding].status = "completed")
  /\ sys_driver' = [sys_driver EXCEPT !.pc = "copy"]
  /\ UNCHANGED <<sys_queue, sys_inbox, sys_log>>
  /\ UNCHANGED <<busVars, rmVars, modVars, syncVars, threadVars, apiVars, voteVars,
                 debaterVars, cacheVars>>

NextComplete ==
  \/ ProcessRequest
  \/ WorkerRouteAndDeliver
  \/ ProcessCopy
  \/ ProcessClear
  \/ ProcessOne
  \/ ProcessNextAgent
  \/ RetrieveResponse
  \/ ProcessAgentMessagesAgain
  \/ Sweep
  \/ Tick(MatchHorizon)

(***************************************************************************)
(* VotingSystem (core/voting.py)                                           *)
(* The methods are functions of their arguments.  votes is a dict: its     *)
(* i-th entry is the ballot of voter i, in insertion order.  A float is    *)
(* kept as an exact fraction [num, den].                                   *)
(***************************************************************************)
\* the number of voters of a call
MaxBallots == 3

\* python's None as a winner
NoWinner == "None"

\* the candidate lists and what a ballot can name (X is in no list)
OptionLists == {<<"A">>, <<"A", "B">>, <<"A", "B", "C">>}
Choices == {"A", "B", "C", "X"}

\* sequences of at most n elements of S
SeqUpTo(S, n) == UNION {[1..k -> S] : k \in 0..n}

\* the weight maps: voters 1 and 2 and somebody who does not vote (0) have
\* a weight or none; voter 3 never has one
WeightMaps ==
  UNION {[K -> {1, 3}] : K \in SUBSET {0, 1, 2}}

\* no exception
NoError == "none"

NoCall == [kind |-> "none", options |-> <<>>, votes |-> <<>>, weights |-> <<>>]
NoResult == [call |-> "none"]

\* no call to the VotingSystem
InitNoVote ==
  /\ vote_in = NoCall
  /\ vote_out = NoResult

\* what the calls on the VotingSystem do not touch
notVoteVars == <<busVars, rmVars, modVars, syncVars, threadVars, apiVars, debaterVars, cacheVars, sysVars>>

\* vote_out after a call that returns result, and after one that raises
Returned(call, result) == [call |-> call, raised |-> NoError, result |-> result]
Raised(call, error) == [call |-> call, raised |-> error]

\* an exact fraction
Frac(n, d) == [num |-> n, den |-> d]
Zero == Frac(0, 1)

\* a < b and a = b for fractions with positive denominators
FracLess(a, b) == a.num * b.den < b.num * a.den
FracEq(a, b) == a.num * b.den = b.num * a.den

\* what a defaultdict holds after d[key] += w: the entries in insertion order
Bump(d, key, w) ==
  IF \E i \in DOMAIN d : d[i].key = key
    THEN [i \in DOMAIN d |-> IF d[i].key = key
                               THEN [d[i] EXCEPT !.n = @ + w] ELSE d[i]]
    ELSE Append(d, [key |-> key, n |-> w])

\* d[key] of a dict that holds the key
At(d, key) == (CHOOSE e \in Range(d) : e.key = key).n

Keys(d) == {e.key : e \in Range(d)}

\* max(d.keys(), key=lambda x: d[x]): the first key, in insertion order, of
\* the largest value
MaxKey(d) ==
  d[CHOOSE i \in DOMAIN d :
      /\ \A j \in DOMAIN d : d[j].n <= d[i].n
      /\ \A j \in 1..(i - 1) : d[j].n < d[i].n].key

\* a mutant of Counts: a ballot for an option outside the list is counted
RECURSIVE CountsAnyChoice(_, _)
CountsAnyChoice(options, votes) ==
  IF votes = <<>> THEN <<>>
  ELSE Bump(CountsAnyChoice(options, SubSeq(votes, 1, Len(votes) - 1)),
            votes[Len(votes)], 1)

\* majority_vote, the loop over votes.items(): counts[choice] += 1 for the
\* choices that are in options
RECURSIVE Counts(_, _)
Counts(options, votes) ==
  IF votes = <<>> THEN <<>>
  ELSE LET before == Counts(options, SubSeq(votes, 1, Len(votes) - 1))
           choice == votes[Len(votes)]
       IN IF choice \in Range(options) THEN Bump(before, choice, 1) ELSE before

\* majority_vote
MajorityResult(options, votes) ==
  LET counts == Counts(options, votes)
      total_votes == Len(votes)
      winner == IF counts # <<>> THEN MaxKey(counts) ELSE NoWinner
  IN IF total_votes = 0
       THEN [winner |-> NoWinner, counts |-> <<>>, percentage |-> Zero,
             method |-> "majority"]
       ELSE [winner |-> winner, counts |-> counts,
             percentage |-> IF winner # NoWinner
                              THEN Frac(At(counts, winner) * 100, total_votes)
                              ELSE Zero,
             method |-> "majority"]

\* a call of majority_vote on ballots that name one option each
MajorityVote ==
  /\ vote_in.kind = "choice"
  /\ vote_out' = Returned("majority_vote",
                           MajorityResult(vote_in.options, vote_in.votes))
  /\ UNCHANGED vote_in
  /\ UNCHANGED notVoteVars

\* weights.get(voter, 1.0)
WeightOf(weights, voter) ==
  IF voter \in DOMAIN weights THEN weights[voter] ELSE 1

\* sum(weights.values())
SumValues(weights) ==
  LET sum[K \in SUBSET DOMAIN weights] ==
        IF K = {} THEN 0
        ELSE LET k == CHOOSE x \in K : TRUE IN weights[k] + sum[K \ {k}]
  IN sum[DOMAIN weights]

\* weighted_vote, the loop over votes.items(): scores[choice] += weight for
\* the choices that are in options
RECURSIVE Scores(_, _, _)
Scores(options, votes, weights) ==
  IF votes = <<>> THEN <<>>
  ELSE LET before == Scores(options, SubSeq(votes, 1, Len(votes) - 1), weights)
           choice == votes[Len(votes)]
       IN IF choice \in Range(options)
            THEN Bump(before, choice, WeightOf(weights, Len(votes)))
            ELSE before

\* weighted_vote
WeightedResult(options, votes, weights) ==
  IF weights = <<>> THEN MajorityResult(options, votes)
  ELSE LET scores == Scores(options, votes, weights)
           total_weight == SumValues(weights)
           winner == IF scores # <<>> THEN MaxKey(scores) ELSE NoWinner
       IN IF total_weight = 0
            THEN [winner |-> NoWinner, scores |-> <<>>, percentage |-> Zero,
                  method |-> "weighted"]
            ELSE [winner |-> winner, scores |-> scores,
                  percentage |-> IF winner # NoWinner
                                   THEN Frac(At(scores, winner) * 100, total_weight)
                                   ELSE Zero,
                  total_weight |-> total_weight, method |-> "weighted"]

\* a call of weighted_vote with a weight map
WeightedVote ==
  /\ vote_in.kind = "choice"
  /\ vote_out' = Returned("weighted_vote",
                           WeightedResult(vote_in.options, vote_in.votes,
                                          vote_in.weights))
  /\ UNCHANGED vote_in
  /\ UNCHANGED notVoteVars

\* a score is kept as a number of twentieths: 17 is 0.85
Unit == 20

\* consensus_threshold, 0.7
ConsensusThreshold == 14

\* the scores a voter gives to A (0.1, 0.8, 0.85, 0.9) and to B (0.1, 0.15, 0.2)
AScores == {2, 16, 17, 18}
BScores == {2, 3, 4}

\* the dict of one voter: a score for A, then one for B
ScoreBallots ==
  {<<[key |-> "A", n |-> a], [key |-> "B", n |-> b]>> : a \in AScores, b \in BScores}

\* option_scores after the loops over votes.items() and scores.items():
\* for each option of the list, in order of first appearance, its scores
RECURSIVE OptionScores(_, _)
OptionScores(options, entries) ==
  IF entries = <<>> THEN <<>>
  ELSE LET before == OptionScores(options, SubSeq(entries, 1, Len(entries) - 1))
           e == entries[Len(entries)]
       IN IF e.key \notin Range(options) THEN before
          ELSE IF \E i \in DOMAIN before : before[i].key = e.key
            THEN [i \in DOMAIN before |->
                    IF before[i].key = e.key
                      THEN [before[i] EXCEPT !.scores = Append(@, e.n)]
                      ELSE before[i]]
            ELSE Append(before, [key |-> e.key, scores |-> <<e.n>>])

\* the dicts of all voters one after the other
RECURSIVE Flatten(_)
Flatten(votes) ==
  IF votes = <<>> THEN <<>> ELSE Head(votes) \o Flatten(Tail(votes))

RECURSIVE SumSeq(_)
SumSeq(q) == IF q = <<>> THEN 0 ELSE Head(q) + SumSeq(Tail(q))

\* sum((s - avg_score) ** 2 for s in scores) / len(scores)
Variance(scores) ==
  LET n == Len(scores)
      total == SumSeq(scores)
  IN Frac(SumSeq([i \in 1..n |-> (n * scores[i] - total) * (n * scores[i] - total)]),
          n * n * n * Unit * Unit)

\* consensus = 1 - variance ** 0.5 is at least the threshold exactly when
\* the variance is at most (1 - threshold) squared
IsConsensus(variance) ==
  LET slack == Unit - ConsensusThreshold
  IN variance.num * Unit * Unit <= slack * slack * variance.den

\* consensus_results, an entry for each option that has scores;
\* consensus_level is 1 minus the square root of the variance kept here
ConsensusResults(options, votes) ==
  LET option_scores == OptionScores(options, Flatten(votes))
  IN [i \in DOMAIN option_scores |->
        LET scores == option_scores[i].scores
        IN [key |-> option_scores[i].key,
            average_score |-> Frac(SumSeq(scores), Len(scores) * Unit),
            variance |-> Variance(scores),
            is_consensus |-> IsConsensus(Variance(scores))]]

\* (consensus_level, average_score) of x is below that of y
BelowInConsensus(x, y) ==
  \/ FracLess(y.variance, x.variance)
  \/ FracEq(x.variance, y.variance) /\ FracLess(x.average_score, y.average_score)

\* max(consensus_results.keys(), key=...): the first entry no entry is above
BestOption(consensus_results) ==
  consensus_results[CHOOSE i \in DOMAIN consensus_results :
            /\ \A j \in DOMAIN consensus_results : ~BelowInConsensus(consensus_results[i], consensus_results[j])
            /\ \A j \in 1..(i - 1) : BelowInConsensus(consensus_results[j], consensus_results[i])]

\* consensus_vote
ConsensusResult(options, votes) ==
  LET consensus_results == ConsensusResults(options, votes)
  IN [winner |-> IF consensus_results # <<>> /\ BestOption(consensus_results).is_consensus
                   THEN BestOption(consensus_results).key ELSE NoWinner,
      results |-> consensus_results, method |-> "consensus",
      threshold |-> ConsensusThreshold]

\* a call of consensus_vote on ballots that score the options
ConsensusVote ==
  /\ vote_in.kind = "scores"
  /\ vote_out' = Returned("consensus_vote",
                           ConsensusResult(vote_in.options, vote_in.votes))
  /\ UNCHANGED vote_in
  /\ UNCHANGED notVoteVars

\* the rankings a voter can hand in
Rankings ==
  {<<"A", "B", "C">>, <<"B", "A", "C">>, <<"C", "B", "A">>, <<"A">>, <<"B">>,
   <<"X">>}

\* the first choice of a ranking that is still in contention, if any
RECURSIVE FirstInContention(_, _)
FirstInContention(rankings, candidates) ==
  IF rankings = <<>> THEN <<>>
  ELSE IF Head(rankings) \in candidates THEN <<Head(rankings)>>
  ELSE FirstInContention(Tail(rankings), candidates)

\* first_choices after the loop over votes.items()
RECURSIVE FirstChoices(_, _)
FirstChoices(votes, candidates) ==
  IF votes = <<>> THEN <<>>
  ELSE LET before == FirstChoices(SubSeq(votes, 1, Len(votes) - 1), candidates)
           choice == FirstInContention(votes[Len(votes)], candidates)
       IN IF choice = <<>> THEN before ELSE Bump(before, choice[1], 1)

\* sum(first_choices.values())
TotalOf(d) == SumSeq([i \in DOMAIN d |-> d[i].n])

\* min(d.keys(), key=lambda x: d[x]): the first key of the smallest value
MinKey(d) ==
  d[CHOOSE i \in DOMAIN d :
      /\ \A j \in DOMAIN d : d[j].n >= d[i].n
      /\ \A j \in 1..(i - 1) : d[j].n > d[i].n].key

\* the first candidate, in the order of first_choices, with count > total / 2
MajorityOf(d) ==
  LET total == TotalOf(d)
      over == {i \in DOMAIN d : 2 * d[i].n > total}
  IN IF over = {} THEN <<>>
     ELSE <<d[CHOOSE i \in over : \A j \in over : i <= j]>>

\* ranked_choice_vote from the test of the while loop on, with the locals
\* candidates, round_number and elimination_rounds
RECURSIVE RankedFrom(_, _, _, _)
RankedFrom(votes, candidates, round_number, elimination_rounds) ==
  LET first_choices == FirstChoices(votes, candidates)
      final == [winner |-> IF Cardinality(candidates) = 1
                             THEN CHOOSE c \in candidates : TRUE ELSE NoWinner,
                final_round |-> round_number,
                elimination_rounds |-> elimination_rounds,
                method |-> "ranked"]
  IN IF Cardinality(candidates) <= 1 THEN final
     ELSE IF TotalOf(first_choices) = 0 THEN final
     ELSE IF MajorityOf(first_choices) # <<>>
       THEN [winner |-> MajorityOf(first_choices)[1].key,
             final_round |-> round_number,
             percentage |-> Frac(MajorityOf(first_choices)[1].n * 100,
                                 TotalOf(first_choices)),
             elimination_rounds |-> elimination_rounds,
             method |-> "ranked"]
     ELSE LET eliminated == MinKey(first_choices)
          IN RankedFrom(votes, candidates \ {eliminated}, round_number + 1,
                        Append(elimination_rounds,
                               [round |-> round_number, eliminated |-> eliminated,
                                votes |-> At(first_choices, eliminated)]))

\* ranked_choice_vote
RankedResult(options, votes) == RankedFrom(votes, Range(options), 1, <<>>)

\* a call of ranked_choice_vote on ballots that rank the options
RankedChoiceVote ==
  /\ vote_in.kind = "ranking"
  /\ vote_out' = Returned("ranked_choice_vote",
                           RankedResult(vote_in.options, vote_in.votes))
  /\ UNCHANGED vote_in
  /\ UNCHANGED notVoteVars

\* the methods conduct_vote knows, and one it does not know
Methods == {"majority", "weighted", "consensus", "ranked"}
MethodNames == Methods \cup {"borda"}

\* the kind of ballots a method reads
KindOf(method) ==
  IF method = "consensus" THEN "scores"
  ELSE IF method = "ranked" THEN "ranking" ELSE "choice"

\* self.voting_methods[method](options, votes): weighted_vote has a third
\* parameter without a default, and the call raises TypeError
CallWithoutWeights(method, options, votes) ==
  IF method = "majority"
    THEN Returned("conduct_vote", MajorityResult(options, votes))
  ELSE IF method = "consensus"
    THEN Returned("conduct_vote", ConsensusResult(options, votes))
  ELSE IF method = "ranked"
    THEN Returned("conduct_vote", RankedResult(options, votes))
  ELSE Raised("conduct_vote", "TypeError")

\* conduct_vote(options, votes, method, weights), the weights left out
\* (None) when with_weights is false
ConductVote(method, with_weights) ==
  /\ vote_in.kind = KindOf(method)
  /\ vote_out' =
       [method |-> method, with_weights |-> with_weights] @@
       IF method \notin Methods THEN Raised("conduct_vote", "ValueError")
       ELSE IF method = "weighted" /\ with_weights /\ vote_in.weights # <<>>
         THEN Returned("conduct_vote",
                       WeightedResult(vote_in.options, vote_in.votes,
                                      vote_in.weights))
       ELSE CallWithoutWeights(method, vote_in.options, vote_in.votes)
  /\ UNCHANGED vote_in
  /\ UNCHANGED notVoteVars

\* the arguments of the calls: ballots that name an option, with a weight
\* map; ballots that score A and B; ballots that rank the options
InitVoting ==
  /\ vote_out = NoResult
  /\ \/ \E options \in OptionLists, votes \in SeqUpTo(Choices, MaxBallots),
           weights \in WeightMaps :
          vote_in = [kind |-> "choice", options |-> options, votes |-> votes,
                     weights |-> weights]
     \/ \E options \in OptionLists, votes \in SeqUpTo(ScoreBallots, MaxBallots) :
          vote_in = [kind |-> "scores", options |-> options, votes |-> votes,
                     weights |-> <<>>]
     \/ \E options \in OptionLists, votes \in SeqUpTo(Rankings, MaxBallots) :
          vote_in = [kind |-> "ranking", options |-> options, votes |-> votes,
                     weights |-> <<>>]
  /\ InitBus /\ InitRM /\ InitMod /\ InitSync /\ InitThreads /\ InitApi /\ InitSys /\ InitCaches /\ InitDebaters

NextVote ==
  \/ MajorityVote
  \/ WeightedVote
  \/ ConsensusVote
  \/ RankedChoiceVote
  \/ \E method \in MethodNames, with_weights \in BOOLEAN :
       ConductVote(method, with_weights)

(***************************************************************************)
(* Specifications                                                          *)
(***************************************************************************)
Init ==
  /\ InitBus /\ InitRM /\ InitMod /\ InitSync /\ InitThreads /\ InitApi /\ InitSys /\ InitCaches /\ InitDebaters
  /\ InitNoVote

SpecBus == Init /\ [][NextBus]_vars

\* the EnhancedMessageBus: registry, subscriptions, publish and the routing worker
SpecEnhanced == Init /\ [][NextEnhanced]_vars

SpecSync == Init /\ [][NextSync]_vars

SpecOrder == Init /\ [][NextOrder]_vars

SpecThreads == Init /\ [][NextThreads]_vars

SpecApi == Init /\ [][NextApi]_vars

SpecVote == InitVoting /\ [][NextVote]_vars

\* the registries in which every agent of Names is registered, in any order
Registries == {r \in [1..Cardinality(Names) -> Names] : Range(r) = Names}

\* the bus once register_agent has been called for every agent
InitRegistered ==
  /\ agents \in Registries
  /\ subscribers = [t \in Types |-> {}]
  /\ message_queue = <<>>
  /\ message_history = <<>>
  /\ stats = [messages_sent |-> 0, messages_delivered |-> 0, messages_failed |-> 0]
  /\ inbox = [a \in Names |-> <<>>]
  /\ outbox = [a \in Names |-> <<>>]
  /\ received = [a \in Names |-> <<>>]
  /\ nextMsg = 1
  /\ InitRM /\ InitMod /\ InitSync /\ InitThreads /\ InitApi /\ InitSys /\ InitCaches /\ InitDebaters /\ InitNoVote

\* agents that stay registered queue envelopes; the driver and the worker
\* interleave
NextDriven ==
  \/ \E m \in NewMessages : SendMessage(m.sender, m)
  \/ WorkerGet
  \/ WorkerDirect
  \/ WorkerNext
  \/ DriverStart
  \/ DriverInbox
  \/ DriverInboxDone
  \/ DriverOutbox
  \/ DriverNextAgent
  \/ DriverEnd

SpecDriven == InitRegistered /\ [][NextDriven]_vars

\* the i-th of the envelopes published before the model starts to follow a
\* bus that has been running for a while
PastMessage(i) == Message(0 - i, "Agent1", "Agent2", "PING")

\* a bus on which n envelopes for the unregistered Agent2 have been published
\* and have failed: every one of them is in the history
InitLongRun ==
  /\ \E n \in (HistoryCap - 1)..HistoryCap :
       /\ message_history = [i \in 1..n |-> PastMessage(n + 1 - i)]
       /\ stats = [messages_sent |-> n, messages_delivered |-> 0,
                   messages_failed |-> n]
  /\ agents = <<>>
  /\ subscribers = [t \in Types |-> {}]
  /\ message_queue = <<>>
  /\ inbox = [a \in Names |-> <<>>]
  /\ outbox = [a \in Names |-> <<>>]
  /\ received = [a \in Names |-> <<>>]
  /\ nextMsg = 1
  /\ InitRM /\ InitMod /\ InitSync /\ InitThreads /\ InitApi /\ InitSys /\ InitCaches /\ InitDebaters /\ InitNoVote

\* MessageBusSync after a long run
SpecSyncLongRun == InitLongRun /\ [][NextSync]_vars

\* the ResponseManager with requests that expire
SpecRM == Init /\ [][NextRM]_vars

\* the ResponseManager with several requests and their responses
SpecRMMatch == Init /\ [][NextRMMatch]_vars

\* requests with short timeouts for which get_response is never called
NextRMSweep ==
  \/ \E t \in Timeouts :
       rm_stats.requests_created < MaxSweptReq /\ CreateRequest(t)
  \/ RegisterResponse(NewResponse(None))
  \/ Sweep
  \/ Tick(MaxTime)

\* the ResponseManager while the clock runs and the cleanup thread keeps sweeping
SpecRMLive ==
  /\ Init
  /\ [][NextRMSweep]_vars
  /\ WF_vars(Sweep)
  /\ WF_vars(Tick(MaxTime))

\* the DebateModerator and its debate
SpecDebate == Init /\ [][NextDebate]_vars

\* the Moderator when the only envelopes it is handed after create_debate are
\* ARGUMENT_SUBMISSION envelopes
NextSubmissions ==
  \/ \E d \in DebateIds, ps \in ParticipantLists : CreateDebate(d, ps)
  \/ \E d \in DebateIds, p \in Submitters, an \in Analyses :
       HandleArgumentSubmission(d, p, an)
  \/ DrainOutbox

SpecSubmissions == Init /\ [][NextSubmissions]_vars

SpecDebaters == Init /\ [][NextDebaters]_vars

\* the Moderator, its participants and the bus, with START_ROUND envelopes
\* handled while submissions are in the Moderator's inbox
NextLateSubmissions ==
  \/ NextDebaters
  \/ \E d \in DebateIds : HandleStartRound(d)

SpecLateSubmissions == Init /\ [][NextLateSubmissions]_vars

SpecCaches == Init /\ [][NextCaches]_vars

\* the complete system serving the calls of process_request
SpecComplete == Init /\ [][NextComplete]_vars

\* a participant's first answer to the round that is open
SubmitAnswer(d, p) ==
  \E an \in Analyses : ~Redundant(d, p) /\ HandleArgumentSubmission(d, p, an)

\* the DebateModerator when the driving loop keeps running and every
\* participant answers every round that is started
SpecDebateLive ==
  /\ Init
  /\ [][NextDebate]_vars
  /\ WF_vars(DrainOutbox)
  /\ \A d \in DebateIds : \A p \in Submitters : WF_vars(SubmitAnswer(d, p))

(***************************************************************************)
(* Claims about the MessageBus                                             *)
(***************************************************************************)
\* the step is one delivery of envelope m by the worker
Delivering(m) ==
  /\ message_queue # <<>>
  /\ Head(message_queue) = m
  /\ message_queue' = Tail(message_queue)

\* all envelopes that exist in a queue or a box
Envelopes ==
  Range(message_queue) \cup UNION {Range(inbox[a]) : a \in Names}
    \cup UNION {Range(outbox[a]) : a \in Names}

\* C1: delivering an envelope addressed to a registered agent appends it
\* exactly once to that agent's inbox and leaves every other inbox as it was,
\* whoever else is registered or subscribed to its type.
C1_DirectDeliveryExactlyOnce ==
  [][\A m \in Range(message_queue) :
       (Delivering(m) /\ m.recipient # NoRecipient /\ m.recipient \in Registered)
         => \A a \in Names :
              IF a = m.recipient
                THEN /\ Len(inbox'[a]) = Len(inbox[a]) + 1
                     /\ Count(m, inbox'[a]) = Count(m, inbox[a]) + 1
                ELSE inbox'[a] = inbox[a]]_vars

\* C1 witness: a direct envelope sits once in its recipient's inbox while the
\* two other agents are registered, one of them subscribed to its type, and
\* hold nothing.
C1_Witness ==
  \E a \in Names :
    /\ Len(inbox[a]) = 1
    /\ inbox[a][1].recipient = a
    /\ Cardinality(Registered) = 3
    /\ \E b \in Names \ {a} : b \in subscribers[inbox[a][1].type]
    /\ \A b \in Names \ {a} : inbox[b] = <<>>
    /\ message_history # <<>>

ResponseById(rid) == CHOOSE r \in Range(completed_responses) : r.id = rid

\* every registered response carries the id of a request as thread id, no two
\* of them the same
DistinctMatchingThreadIds ==
  /\ \A i \in DOMAIN completed_responses :
       completed_responses[i].thread_id \in Created
  /\ \A i, j \in DOMAIN completed_responses :
       i # j => completed_responses[i].thread_id # completed_responses[j].thread_id

\* C3: when every registered response carries the id of a distinct request as
\* thread id, a request is completed only with the response that carries its
\* own id, and get_response returns success only with that response.
C3_NoCrossMatching ==
  DistinctMatchingThreadIds =>
    \A id \in Created :
      /\ req[id].status = "completed"
           => ResponseById(req[id].response).thread_id = id
      /\ \A i \in DOMAIN results[id] :
           results[id][i].kind = "success"
             => ResponseById(results[id][i].response).thread_id = id

\* C4: a request ends in exactly one terminal outcome for its caller.
\* get_response finds a request only in the pending table, so a request that has
\* left the table must have handed its one outcome (success, error or request
\* timeout) to a get_response call, and no request hands out two.
C4_ExactlyOneOutcome ==
  \A id \in Created :
    /\ Len(results[id]) <= 1
    /\ ~InTable(id) => Len(results[id]) = 1

\* C5: a PendingRequest whose status has left pending never changes status
\* again, and its response slot never changes.
C5_TerminalStatusIsFinal ==
  [][\A id \in ReqIds :
       req[id].status \in {"completed", "error", "timeout"}
         => /\ req'[id].status = req[id].status
            /\ req'[id].response = req[id].response]_vars

\* C6: a request that got no response has status timeout at the latest
\* timeout + CleanupPeriod seconds after its creation, polled or not (a request
\* without response is pending or timed out), and a timed-out request never
\* changes again.
C6_TimeoutWithinSweepPeriod ==
  [][\A id \in ReqIds :
       /\ req'[id].status = "pending"
            => now' - req'[id].created_at <= req'[id].timeout + CleanupPeriod
       /\ req[id].status = "timeout" => req'[id] = req[id]]_vars

\* C6 witness: a request nobody polled and nobody answered was timed out by the
\* sweep, having stayed pending for its timeout plus a whole sweep period.
C6_Witness ==
  \E id \in Created :
    /\ req[id].status = "timeout"
    /\ completed_responses = <<>>
    /\ results[id] = <<>>
    /\ ~poll[id].active
    /\ now - req[id].created_at = req[id].timeout + CleanupPeriod

(***************************************************************************)
(* The debate claims                                                       *)
(***************************************************************************)
LastRound(deb) == deb.rounds[Len(deb.rounds)]

\* a closed debate of 3 participants
ClosedDebates ==
  {d \in DebateIds : /\ active_debates[d].status = "closed"
                     /\ Len(active_debates[d].participants) = 3}

\* C7 as stated: in a closed debate of 3 participants every participant has
\* exactly one argument in the last round, or the debate has 3 rounds.
C7_ClosedExactlyOneArgument ==
  \A d \in ClosedDebates :
    LET deb == active_debates[d]
    IN \/ \A p \in Range(deb.participants) : Len(LastRound(deb).arguments[p]) = 1
       \/ Len(deb.rounds) >= MaxRounds

\* C7 amended: in a closed debate of 3 participants every participant has at
\* least one argument in the last round, or the debate has 3 rounds; a
\* participant's repeated submissions are stored as well.
C7_ClosedAtLeastOneArgument ==
  \A d \in ClosedDebates :
    LET deb == active_debates[d]
    IN \/ \A p \in Range(deb.participants) : Len(LastRound(deb).arguments[p]) >= 1
       \/ Len(deb.rounds) >= MaxRounds

\* a debate closed before the cap in which one participant has two arguments
C7_Witness ==
  \E d \in ClosedDebates :
    LET deb == active_debates[d]
    IN /\ Len(deb.rounds) < MaxRounds
       /\ \A p \in Range(deb.participants) : Len(LastRound(deb).arguments[p]) >= 1
       /\ \E p \in Range(deb.participants) : Len(LastRound(deb).arguments[p]) = 2

\* C8: while a round is tracked, a step that is not a START_ROUND starts a
\* round or changes the debate's status only if it stores the argument of a
\* participant p and the senders recorded for the round, with p, are a
\* superset of the participants; a strict subset, whatever its order and
\* duplicates, leaves the round open.
C8_PartialSetLeavesRoundOpen ==
  [][\A d \in DebateIds :
       LET deb == active_debates[d]
           n == Len(deb.rounds)
       IN (/\ debate_rounds_status[d].tracked
           /\ n > 0
           /\ mod_handled'.START_ROUND = mod_handled.START_ROUND
           /\ \/ Len(active_debates'[d].rounds) # n
              \/ active_debates'[d].status # deb.status)
          => \E p \in Range(deb.participants) :
               /\ active_debates'[d].rounds[n].arguments[p] =
                    Append(deb.rounds[n].arguments[p], Argument(p))
               /\ Range(deb.participants) \subseteq
                    Range(debate_rounds_status[d].arguments_received) \cup {p}]_vars

\* two of three participants have answered the first round, one of them twice
C8_Witness ==
  \E d \in DebateIds :
    /\ active_debates[d].status = "active"
    /\ Len(active_debates[d].rounds) = 1
    /\ Len(debate_rounds_status[d].arguments_received) = 3
    /\ Cardinality(Range(debate_rounds_status[d].arguments_received)
                   \cap Range(active_debates[d].participants)) = 2

\* C9: a debate never has more than 3 rounds.
C9_AtMostThreeRounds ==
  \A d \in DebateIds : Len(active_debates[d].rounds) <= MaxRounds

\* the syntheses conclude_debate writes when the analysis gives none
GenericSyntheses == {"Débat terminé", "Débat terminé suite à erreur"}

\* C10: after a step in which start_round, _send_debate_invitations,
\* _analyze_and_continue_debate or conclude_debate caught an exception for a
\* debate, that debate is closed with a generic synthesis.
C10_FaultConcludes ==
  \A e \in mod_errors :
    e.method \in {"start_round", "_send_debate_invitations",
                  "_analyze_and_continue_debate", "conclude_debate"}
    => /\ active_debates[e.debate_id].status = "closed"
       /\ \E r \in Range(active_debates[e.debate_id].result) :
            r.synthesis \in GenericSyntheses

\* the DEBATE_CONCLUSION envelopes for debate d in a sequence of envelopes
Conclusions(box, d) ==
  {i \in 1..Len(box) : box[i].type = "DEBATE_CONCLUSION" /\ box[i].debate_id = d}

\* C11: a created debate whose participants answer every round eventually is
\* closed, with its DEBATE_CONCLUSION queued and at most 3 rounds.
C11_DebateConcludes ==
  \A d \in DebateIds :
    (active_debates[d].status \notin {"none", "closed"})
      ~> (/\ active_debates[d].status = "closed"
          /\ Conclusions(mod_outbox, d) # {}
          /\ Len(active_debates[d].rounds) <= MaxRounds)

\* the invitations of round number r of debate d in a sequence of envelopes
Invitations(box, d, r, p) ==
  {i \in 1..Len(box) : /\ box[i].type = "DEBATE_INVITATION"
                       /\ box[i].debate_id = d
                       /\ box[i].round = r
                       /\ box[i].recipient = p}

\* C12: a step that puts a debate into active_debates leaves it with exactly
\* one round, numbered 1, status active and one queued invitation per
\* participant; a list of fewer than 2 participants leaves no debate behind.
C12_CreationStartsFirstRound ==
  [][\A d \in DebateIds :
       (active_debates[d].status = "none" /\ active_debates'[d].status # "none")
       => LET deb == active_debates'[d]
          IN /\ Len(deb.participants) >= MinParticipants
             /\ Len(deb.rounds) = 1
             /\ deb.rounds[1].number = 1
             /\ deb.status = "active"
             /\ \A p \in Range(deb.participants) :
                  Cardinality(Invitations(mod_outbox', d, 1, p)) = 1]_vars

\* C13: a step in which conclude_debate queues the conclusion of a debate
\* queues exactly one DEBATE_CONCLUSION for it, with the result and its
\* synthesis, and leaves the debate out of active_debates (the model reaches a
\* Debate only through active_debates, where the concluded one stays, closed).
C13_ConcludeRemovesDebate ==
  [][\A d \in DebateIds :
       (mod_outbox = <<>> /\ Conclusions(mod_outbox', d) # {})
       => /\ Cardinality(Conclusions(mod_outbox', d)) = 1
          /\ \A i \in Conclusions(mod_outbox', d) :
               mod_outbox'[i].result.synthesis # NoKey
          /\ d \notin ActiveIn([debates |-> active_debates'])]_vars

(***************************************************************************)
(* More ResponseManager claims                                             *)
(***************************************************************************)
\* the request's timeout and the sweep that follows it lie within the clock's
\* horizon
SweptWithinHorizon(id) ==
  req[id].created_at + req[id].timeout + CleanupPeriod <= MaxTime

\* C14: a request in the table is removed from it eventually, whether or not
\* get_response is called for it, while the cleanup thread keeps sweeping.
C14_TableEventuallyEmpty ==
  \A id \in ReqIds :
    (InTable(id) /\ SweptWithinHorizon(id)) ~> ~InTable(id)

\* a request nobody asked for has been swept out of the table
C14_Witness ==
  \E id \in ReqIds :
    /\ req[id].status = "timeout"
    /\ ~InTable(id)
    /\ ~poll[id].active
    /\ results[id] = <<>>
    /\ pending_requests = <<>>

\* the request's age exceeded its timeout while the call of get_response was
\* still polling (the clock counts whole seconds: one before end_time)
ExpiredDuringPoll(id) ==
  (poll[id].end_time - 1) - req[id].created_at > req[id].timeout

\* C15: a call of get_response for a request that received no response, whose
\* outcome was not handed out yet and whose age exceeded its timeout while the
\* call polled, does not end with the call's own poll timeout (the poll ends
\* and no terminal outcome is handed out): it reports the request's timeout,
\* also when the sweep has handled the request before the call.
C15_RequestTimeoutReported ==
  [][\A id \in ReqIds :
       (/\ poll[id].active /\ ~poll'[id].active
        /\ results[id] = <<>> /\ results'[id] = <<>>
        /\ req[id].response = None)
       => ~ExpiredDuringPoll(id)]_vars

\* C16 as stated: every request in the table has status pending.
C16_TableOnlyPending ==
  \A id \in Range(pending_requests) : req[id].status = "pending"

\* C16 amended: every request in the table has status pending or completed; a
\* request with status timeout is not in the table, a completed one stays in
\* it until get_response hands it out or the sweep removes it.
C16_TablePendingOrCompleted ==
  \A id \in ReqIds :
    /\ InTable(id) => req[id].status \in {"pending", "completed"}
    /\ req[id].status = "timeout" => ~InTable(id)

\* a completed request waits in the table, and a swept one has left it
C16_Witness ==
  \E id \in ReqIds :
    /\ InTable(id) /\ req[id].status = "completed" /\ req[id].response # None
    /\ rm_stats.timeouts = 0

(***************************************************************************)
(* More claims about the buses                                             *)
(***************************************************************************)
\* envelope m is addressed to a recipient that is not registered
ToUnregistered(m) == m.recipient # NoRecipient /\ m.recipient \notin Registered

\* a step that puts envelopes on the queue counts each of them as sent
PublishCounts ==
  Len(message_queue') > Len(message_queue)
  => stats'.messages_sent =
       stats.messages_sent + Len(message_queue') - Len(message_queue)

\* the envelope is counted as failed once, reaches no inbox and leaves the queue
FailsOnce(m) ==
  /\ stats'.messages_failed = stats.messages_failed + 1
  /\ stats'.messages_delivered = stats.messages_delivered
  /\ inbox' = inbox
  /\ m \notin Range(message_queue')

C18_HandlerFaultPublishesError ==
  [][\A a \in RaisingAgents :
       (a \in Registered /\ inbox[a] # <<>> /\ inbox'[a] = <<>>)
       => /\ \A b \in Registered : inbox'[b] = <<>> /\ outbox'[b] = <<>>
          /\ \A i \in DOMAIN inbox[a] :
               \E e \in Range(message_queue') :
                 e.type = "ERROR" /\ e.recipient = inbox[a][i].sender]_vars

\* the number of _process_all_inboxes calls in progress
NestingDepth == Len(sync_stack)

\* C19: on MessageBusSync the nesting of publish and drain passes never
\* goes deeper than the iteration cap, whatever the agents answer.
C19_NestingWithinCap == NestingDepth <= MaxIterations

\* under SpecOrder every envelope gets its id from the publish call that
\* queues it, so ids rank the publish calls: the queue holds them in
\* increasing order and no id of the future is in use
IdsRankPublishCalls ==
  /\ \A i, j \in DOMAIN message_queue :
       i < j => message_queue[i].id < message_queue[j].id
  /\ \A m \in Range(message_queue) : m.id < nextMsg

\* C20: on MessageBus two envelopes in the same inbox are in the order of
\* their publish calls, whatever the interleaving of the publishers with the
\* delivery worker, and a publish call is possible whatever the queue holds.
C20_DeliveredInPublishOrder ==
  /\ IdsRankPublishCalls
  /\ \A a \in Names : \A i, j \in DOMAIN inbox[a] :
       i < j => inbox[a][i].id < inbox[a][j].id
  /\ \A m \in NewMessages :
       nextMsg <= MaxOrderMsgs => ENABLED PublishWithin(m, MaxOrderMsgs)

\* two publish calls were made and the worker has put both envelopes in the
\* inbox of one agent
C20_Witness ==
  \E a \in Names :
    /\ Len(inbox[a]) >= 2
    /\ stats.messages_sent >= 2

(***************************************************************************)
(* Claims about the threads of the buses                                   *)
(***************************************************************************)
\* C21: the delivery worker takes no step of _deliver_message, which reads
\* the agent registry or the subscriber set, while another thread is inside
\* a registry operation that modifies them.
C21_WorkerReadsUnderLock ==
  [][worker' # worker => bus_lock # "caller"]_vars

\* C22: the message history of a bus never holds more than 1000 envelopes.
C22_HistoryWithinCap == Len(message_history) <= HistoryCap

\* the driver has returned from exactly one process_agent_messages call, in
\* which it has published the envelope an agent had queued with send_message,
\* and the worker has emptied the queue
OnePassAndDelivered ==
  /\ driver.pc = "idle"
  /\ driver.passes = 1
  /\ stats.messages_sent >= 1
  /\ \A a \in Names : outbox[a] = <<>>
  /\ message_queue = <<>>
  /\ worker.pc = "idle"

\* C23: once an envelope queued with send_message has been published by one
\* driver pass and delivered by the worker to a registered recipient, that
\* recipient has processed it exactly once.
C23_ProcessedOnceAfterOnePass ==
  OnePassAndDelivered =>
    \A a \in Registered :
      \A m \in Range(inbox[a]) \cup Range(received[a]) :
        (m.id = 1 /\ m.recipient = a) => Count(m, received[a]) = 1

(***************************************************************************)
(* Claims about Debate and DebateRound                                     *)
(***************************************************************************)
\* C24: whenever the arguments of a round change, the round was open, the
\* participant is one of the round's listed participants and the new
\* argument, put last, has that participant as author.
C24_ArgumentsOnlyWhileOpen ==
  [][\A r \in DOMAIN debate.rounds : \A p \in DOMAIN debate.rounds[r].arguments :
       debate'.rounds[r].arguments[p] # debate.rounds[r].arguments[p]
       => /\ debate.rounds[r].status = "open"
          /\ p \in Range(debate.rounds[r].participants)
          /\ debate'.rounds[r].arguments[p] =
               Append(debate.rounds[r].arguments[p], Argument(p))]_vars

\* C25: the participant list of every round is the list the round was started
\* with, the keys of its arguments map.
C25_RoundKeepsItsParticipants ==
  \A r \in DOMAIN debate.rounds :
    /\ Range(debate.rounds[r].participants) = DOMAIN debate.rounds[r].arguments
    /\ Len(debate.rounds[r].participants) = Cardinality(DOMAIN debate.rounds[r].arguments)

(***************************************************************************)
(* Claims about the VotingSystem                                           *)
(***************************************************************************)
\* the last call was method m, called directly or through conduct_vote
Called(direct, m) ==
  \/ vote_out.call = direct
  \/ vote_out.call = "conduct_vote" /\ vote_out.method = m

\* the ballots of the call that name option o
BallotsFor(o) == {i \in DOMAIN vote_in.votes : vote_in.votes[i] = o}

\* C26: majority_vote reports for every option of the list that a ballot
\* names the number of ballots naming it and counts nothing else; when a
\* ballot names an option of the list the winner has the highest count and
\* the percentage is the winner's count out of all ballots.
C26_MajorityWinner ==
  Called("majority_vote", "majority") =>
    LET res == vote_out.result
        valid == {o \in Range(vote_in.options) : BallotsFor(o) # {}}
    IN /\ vote_out.raised = NoError
       /\ Keys(res.counts) = valid
       /\ \A o \in valid : At(res.counts, o) = Cardinality(BallotsFor(o))
       /\ valid # {} =>
            /\ res.winner \in valid
            /\ \A o \in valid :
                 Cardinality(BallotsFor(o)) <= Cardinality(BallotsFor(res.winner))
            /\ FracEq(res.percentage,
                      Frac(Cardinality(BallotsFor(res.winner)) * 100,
                           Len(vote_in.votes)))

\* two of three ballots name A, one names an option outside the list: A has
\* won with two thirds of the ballots
C26_Witness ==
  /\ Called("majority_vote", "majority")
  /\ vote_in.options = <<"A", "B">>
  /\ vote_in.votes = <<"A", "X", "A">>
  /\ vote_out.result.winner = "A"
  /\ vote_out.result.percentage = Frac(200, 3)

\* the weighted sum of the ballots for option o, a voter without a weight
\* counting 1
WeightFor(o) ==
  LET sum[K \in SUBSET BallotsFor(o)] ==
        IF K = {} THEN 0
        ELSE LET k == CHOOSE x \in K : TRUE
             IN WeightOf(vote_in.weights, k) + sum[K \ {k}]
  IN sum[BallotsFor(o)]

\* the total weight of the voters of the call
WeightOfVoters ==
  SumSeq([i \in DOMAIN vote_in.votes |-> WeightOf(vote_in.weights, i)])

\* C27: a weighted vote, with a weight map or without one, returns the option
\* of the highest weighted sum and that sum as a percentage of the total
\* weight of the voters.
C27_WeightedWinner ==
  Called("weighted_vote", "weighted") =>
    LET valid == {o \in Range(vote_in.options) : BallotsFor(o) # {}}
    IN /\ vote_out.raised = NoError
       /\ valid # {} =>
            /\ vote_out.result.winner \in valid
            /\ \A o \in valid : WeightFor(o) <= WeightFor(vote_out.result.winner)
            /\ FracEq(vote_out.result.percentage,
                      Frac(WeightFor(vote_out.result.winner) * 100, WeightOfVoters))

\* the score voter i gives to option o
ScoreOf(i, o) == At(vote_in.votes[i], o)

\* C28: with three voters scoring the options A and B, B at about 0.15: when
\* the scores of A are all within 0.80..0.90 (16 to 18 twentieths) the winner
\* is A, with is_consensus true; when they are 0.9, 0.1, 0.9 there is no
\* winner.
C28_ConsensusExamples ==
  (/\ Called("consensus_vote", "consensus")
   /\ vote_in.options = <<"A", "B">>
   /\ Len(vote_in.votes) = 3)
  => LET res == vote_out.result
     IN /\ (\A i \in 1..3 : ScoreOf(i, "A") \in 16..18)
           => /\ res.winner = "A"
              /\ \E e \in Range(res.results) : e.key = "A" /\ e.is_consensus
        /\ ([i \in 1..3 |-> ScoreOf(i, "A")] = <<18, 2, 18>>)
           => res.winner = NoWinner

\* the candidates in contention in elimination round k of the result
InContention(k) ==
  Range(vote_in.options)
    \ {vote_out.result.elimination_rounds[j].eliminated : j \in 1..(k - 1)}

\* the ballots that count for candidate c among the candidates cands
TallyOf(c, cands) ==
  Cardinality({i \in DOMAIN vote_in.votes :
                 FirstInContention(vote_in.votes[i], cands) = <<c>>})

\* C29: in every elimination round of ranked_choice_vote the eliminated
\* option has the fewest tallies of the options in contention, an option
\* without a tally included, and is recorded with its tally; a winner that
\* has a percentage has more than half of the counted ballots.
C29_EliminatesFewestTallies ==
  Called("ranked_choice_vote", "ranked") =>
    LET res == vote_out.result
    IN /\ vote_out.raised = NoError
       /\ \A k \in DOMAIN res.elimination_rounds :
            LET e == res.elimination_rounds[k]
            IN /\ e.eliminated \in InContention(k)
               /\ e.votes = TallyOf(e.eliminated, InContention(k))
               /\ \A c \in InContention(k) : e.votes <= TallyOf(c, InContention(k))

\* C30: a call of one of the four methods with no ballot raises nothing and
\* returns a result without winner.
C30_NoBallotNoWinner ==
  (/\ vote_out.call \in {"majority_vote", "weighted_vote", "consensus_vote",
                         "ranked_choice_vote"}
   /\ vote_in.votes = <<>>)
  => /\ vote_out.raised = NoError
     /\ vote_out.result.winner = NoWinner

(***************************************************************************)
(* C31: whatever ARGUMENT_SUBMISSION envelopes the Moderator handles,      *)
(* duplicates and submissions after the round completed or the debate      *)
(* concluded included, _analyze_and_continue_debate runs at most once for  *)
(* each round and conclude_debate sends at most one DEBATE_CONCLUSION for  *)
(* each debate, and every submission of a participant of a debate that has *)
(* a round adds one argument to the debate's rounds.                       *)
(***************************************************************************)
\* the arguments of participant p kept in the rounds of a debate
RECURSIVE StoredArguments(_, _)
StoredArguments(rounds, p) ==
  IF rounds = <<>> THEN 0
  ELSE StoredArguments(Tail(rounds), p)
       + (IF p \in DOMAIN Head(rounds).arguments
            THEN Len(Head(rounds).arguments[p]) ELSE 0)

C31_CompletionOncePerRound ==
  /\ [](\A d \in DebateIds :
          /\ Count(d, mod_handled.concluded) <= 1
          /\ \A n \in 1..MaxRounds :
               Count([debate_id |-> d, round |-> n], mod_handled.analysed) <= 1)
  /\ [][\A d \in DebateIds, p \in Submitters, an \in Analyses :
         (/\ HandleArgumentSubmission(d, p, an)
          /\ active_debates[d].rounds # <<>>
          /\ p \in Range(active_debates[d].participants))
         => StoredArguments(active_debates'[d].rounds, p)
              = StoredArguments(active_debates[d].rounds, p) + 1]_vars

\* a participant's submission arrived after the debate was concluded: it is in
\* the last round next to the participant's first one, the KeyError on the
\* deleted tracking entry was logged, and the debate was concluded once
C31_Witness ==
  \E d \in DebateIds :
    /\ active_debates[d].status = "closed"
    /\ Logged("handle_argument_submission", d) \in mod_errors
    /\ \E p \in Range(active_debates[d].participants) :
         Len(LastRound(active_debates[d]).arguments[p]) = 2
    /\ mod_handled.concluded = <<d>>
    /\ Len(mod_handled.analysed) >= 1

(***************************************************************************)
(* C32: a participant that processes a DEBATE_INVITATION sends exactly one *)
(* ARGUMENT_SUBMISSION for the same debate id back to the Moderator.       *)
(***************************************************************************)
\* the ARGUMENT_SUBMISSION envelopes of p for debate d in a sequence
SubmissionsOf(box, p, d) ==
  {i \in DOMAIN box : /\ box[i].type = "ARGUMENT_SUBMISSION"
                      /\ box[i].sender = p
                      /\ box[i].debate_id = d}

C32_InvitationAnswered ==
  [][\A p \in Debaters :
       (/\ DebaterProcess(p)
        /\ Head(part_inbox[p]).type = "DEBATE_INVITATION")
       => Cardinality(SubmissionsOf(mod_inbox', p, Head(part_inbox[p]).debate_id))
            = Cardinality(SubmissionsOf(mod_inbox, p, Head(part_inbox[p]).debate_id)) + 1]_vars

(***************************************************************************)
(* C33: start_round on a tracked debate appends exactly one round, resets  *)
(* the invited, responded and received-arguments lists, and then queues    *)
(* exactly one DEBATE_INVITATION for each participant, carrying the debate *)
(* id, the number of the new round, the roster and the arguments of the    *)
(* earlier rounds only.  (Topic and question are copied from the debate    *)
(* unchanged and are not part of the model's envelopes.)                   *)
(***************************************************************************)
\* what a step that ran start_round(d) leaves: the new round, the tracking of
\* the new round (the invited list filled by the fan-out), the invitations
RoundStarted(d) ==
  LET deb == active_debates[d]
      n == Len(deb.rounds) + 1
      track == debate_rounds_status'[d]
      box == mod_outbox'
  IN /\ active_debates'[d].rounds = Append(deb.rounds, DebateRound(n, deb.participants))
     /\ active_debates'[d].participants = deb.participants
     /\ track.tracked
     /\ track.participants_invited = deb.participants
     /\ track.participants_responded = <<>>
     /\ track.arguments_received = <<>>
     /\ Len(box) = Len(deb.participants)
     /\ \A p \in Range(deb.participants) : Cardinality(Invitations(box, d, n, p)) = 1
     /\ \A i \in DOMAIN box :
          /\ box[i].type = "DEBATE_INVITATION"
          /\ box[i].debate_id = d
          /\ box[i].participants = deb.participants
          /\ \A e \in Range(box[i].arguments) : e.round \in 1..(n - 1)
          /\ \A r \in 1..(n - 1) : \A p \in DOMAIN deb.rounds[r].arguments :
               Count([participant |-> p, round |-> r], box[i].arguments)
                 = Len(deb.rounds[r].arguments[p])

PendingInTable == {id \in Range(pending_requests) : req[id].status = "pending"}

C34_FallbackCompletesOldest ==
  [][RegisterResponse(NewResponse(None))
     => LET resp == NewResponse(None)
        IN /\ completed_responses' = Append(completed_responses, resp)
           /\ IF PendingInTable = {}
                THEN /\ req' = req
                     /\ ~RegisterResponseReturns(resp)
                ELSE /\ RegisterResponseReturns(resp)
                     /\ \E m \in PendingInTable :
                          /\ \A id \in PendingInTable :
                               req[m].created_at <= req[id].created_at
                          /\ req' = [req EXCEPT ![m].response = resp.id,
                                                ![m].status = "completed"]]_vars

\* two requests created at different times; a response without correlation id
\* has completed the older one, and the younger one is still pending
C34_Witness ==
  \E a, b \in Range(pending_requests) :
    /\ req[a].created_at < req[b].created_at
    /\ req[a].status = "completed"
    /\ req[b].status = "pending"
    /\ Len(completed_responses) = 1
    /\ completed_responses[1].thread_id = None
    /\ req[a].response = completed_responses[1].id

(***************************************************************************)
(* C35: process_message rejects an envelope whose sender, type and content *)
(* are those of an earlier envelope still in the cache, and an envelope    *)
(* redelivered directly after it was first processed; the cache holds no   *)
(* more keys than the agent's threshold when process_message returns.      *)
(***************************************************************************)
C35_RedeliveryRejected ==
  /\ [](\A a \in CachingAgents : Cardinality(processed_messages[a]) <= Threshold(a))
  /\ [][\A a \in CachingAgents, c \in 1..(ChefProjetThreshold + 2) :
         (/\ ProcessAgain(a, c)
          /\ c \in processed_messages[a] \/ (c = calls[a].last /\ calls[a].handled))
         => ~calls'[a].handled]_vars

(***************************************************************************)
(* C36: a RESPONSE envelope addressed to "User" completes at most one      *)
(* request, although the router and the UserResponseCollector both handle  *)
(* it: no two requests hold the same envelope as their response.           *)
(***************************************************************************)
C36_EnvelopeCompletesOneRequest ==
  \A a, b \in ReqIds :
    (/\ req[a].response # None
     /\ req[a].response = req[b].response) => a = b

(***************************************************************************)
(* C37: each call of process_request creates exactly one request in the    *)
(* ResponseManager, and once every call has retrieved its answer the table *)
(* of pending requests is empty.                                           *)
(***************************************************************************)
C37_OneRequestPerCall ==
  /\ rm_stats.requests_created = Len(sys_log.requests)
  /\ (sys_log.requests # <<>> /\ Outstanding = None) => pending_requests = <<>>

\* nothing is queued, in an inbox or copied and not yet processed
SysQuiescent ==
  /\ sys_queue = <<>>
  /\ \A a \in Range(SysAgents) : sys_inbox[a] = <<>>
  /\ sys_driver.batch = <<>>

(***************************************************************************)
(* C38: under every interleaving of the worker with process_agent_messages *)
(* an envelope appended to an agent's inbox is passed to that agent's      *)
(* process_message exactly once: never twice, and once nothing is left in  *)
(* the queue, the inboxes and the copied list, every appended envelope has *)
(* been processed.                                                         *)
(***************************************************************************)
C38_InboxEnvelopeProcessedOnce ==
  /\ \A x \in sys_log.appended : Count(x, sys_log.processed) <= 1
  /\ SysQuiescent => \A x \in sys_log.appended : Count(x, sys_log.processed) = 1

(***************************************************************************)
(* C39: closed is terminal.  Whatever envelope the Moderator handles for a *)
(* debate whose status is "closed", the debate stays closed, gets no       *)
(* further round, and no DEBATE_INVITATION is sent for it.                 *)
(***************************************************************************)
C39_ClosedIsTerminal ==
  [][\A d \in DebateIds :
       active_debates[d].status = "closed"
       => /\ active_debates'[d].status = "closed"
          /\ Len(active_debates'[d].rounds) = Len(active_debates[d].rounds)
          /\ \A i \in DOMAIN mod_outbox' :
               (/\ mod_outbox'[i].type = "DEBATE_INVITATION"
                /\ mod_outbox'[i].debate_id = d)
               => i \in DOMAIN mod_outbox /\ mod_outbox[i] = mod_outbox'[i]]_vars

\* the Moderator is handling an ARGUMENT_SUBMISSION written for a round of
\* debate d that is no longer the last one
HandlesLateSubmission(d) ==
  /\ ModeratorProcess
  /\ Head(mod_inbox).type = "ARGUMENT_SUBMISSION"
  /\ Head(mod_inbox).debate_id = d
  /\ Head(mod_inbox).written_for >= 1
  /\ Head(mod_inbox).written_for < Len(active_debates[d].rounds)

(***************************************************************************)
(* C40: an argument is recorded only in the round it was submitted for.  A *)
(* submission written for round k and handled after round k+1 was started  *)
(* is not stored in round k+1 and does not count toward its completion:    *)
(* the last round and the tracking entry of the debate are left as they    *)
(* were.                                                                   *)
(***************************************************************************)
C40_RecordedInItsRound ==
  [][\A d \in DebateIds :
       HandlesLateSubmission(d)
       => LET n == Len(active_debates[d].rounds)
          IN /\ active_debates'[d].rounds[n] = active_debates[d].rounds[n]
             /\ debate_rounds_status'[d] = debate_rounds_status[d]]_vars

====
